---- MODULE Spec2Model ----
(***************************************************************************)
(* A model of the server side of the LAN collaboration hub:                *)
(*   - the control plane (server/main_server.py, server/chat/chat_server.py)*)
(*     as asyncio tasks, one per TCP connection, that run atomically        *)
(*     between awaits that suspend (readline, a contended lock, drain,      *)
(*     wait_closed);                                                        *)
(*   - the transfer broker (server/files/file_server.py);                   *)
(*   - the audio path (server/audio/audio_server.py).                       *)
(* Each part has its own specification over the shared variable list.      *)
(***************************************************************************)
EXTENDS Integers, Sequences, FiniteSets, TLC

(***************************************************************************)
(* Bounds of the model and program constants.                              *)
(***************************************************************************)
MaxConn == 3            \* control connections accepted in one run
MaxLines == 2           \* control lines read in one run (all connections)
MaxUidConn == 2         \* connections accepted in one run of SpecUid
MaxFileConn == 2        \* control connections accepted in one run of SpecFile
MaxFileLines == 1       \* control lines read in one run of SpecFile
MaxFileXfer == 2        \* connections to ephemeral ports in one run of SpecFile
MaxSeqConn == 1         \* control connections accepted in one run of SpecFileSeq
MaxSeqLines == 3        \* control lines read in one run of SpecFileSeq
MaxXfer == 3            \* connections made to ephemeral ports in one run
MaxSize == 2            \* the largest size a file offer names
MaxPackets == 3         \* audio datagrams handled in one run
MaxGapped == 1073741824     \* a sender that skipped this many seqs is sent no more
MaxVideoPackets == 4    \* video datagrams handled in one run
MaxFloodPackets == 53   \* video datagrams of a sender that floods
MaxFloodTimeouts == 3   \* slots of a flood that time out, oldest first
MaxScreenUids == 2      \* control connections of the screen-sharing runs
MaxScreenLines == 2     \* present_start and present_stop lines in one run
MaxPresenterConns == 2  \* connections made to presenter ports in one run
MaxViewerConns == 2     \* connections made to viewer ports in one run
MaxPairViewers == 1     \* of them, with two presentations
MaxFrames == 1          \* frames the peer of a presenter connection sends
MaxRawConn == 2         \* control connections of the run of raw lines
MaxRawLines == 2        \* raw control lines read in one run
MaxBcConn == 4          \* control connections of the run of one broadcast
MaxBcLines == 1         \* control lines read in the run of one broadcast
MaxLeaveConn == 2       \* control connections of the run of leaves
MaxLeaveLines == 3      \* control lines read in the run of leaves
MaxHistoryPosts == 4    \* messages sent beyond MAX_CHAT_HISTORY in one run
MaxLogoutConn == 4      \* control connections of the run of logins and logouts
MaxLogoutLines == 2     \* control lines read in the run of logins and logouts
MaxChatConn == 3        \* control connections of the run of chats
MaxChatLines == 3       \* chat and broadcast lines read in the run of chats
MaxUniConn == 3         \* control connections of the run of unicasts
MaxUniLines == 3        \* control lines read in the run of unicasts
MaxClientPackets == 9   \* chunk datagrams of the run of a client's frames
ClientUid == 4          \* the client of that run
MaxGuiOps == 5          \* notifications, clicks, prunes and time steps of a run

MAX_UID == 2147483647   \* 0x7FFFFFFF, main_server.py:106
MAX_CHAT_HISTORY == 500 \* common/constants.py:32
CHUNK_SIZE == 8192      \* common/constants.py:14
EPHEMERAL_START == 10000 \* FileServer.next_ephemeral_port, file_server.py:30
HALF32 == 2147483647    \* 0x7FFFFFFF, audio_server.py:221
MAX_LATE_MS == 250      \* AudioServer.MAX_LATE_MS, audio_server.py:94
CHUNK_HEADER_SIZE == 36 \* VideoServer.CHUNK_HEADER_SIZE, video_server.py:78
MAX_FRAMES_PER_CLIENT == 50     \* video_server.py:81
MAX_FRAME_SIZE == 10485760      \* 10 * 1024 * 1024, video_server.py:82
MAX_CHUNKS == 100       \* VideoServer.MAX_CHUNKS, video_server.py:83
MAX_CHUNK_SIZE == 1048576       \* 1024 * 1024, video_server.py:84
REGISTER_SIZE == 12     \* struct '>4s I I', video_client.py:295
STREAM_LIMIT == 65536   \* StreamReader's default limit, main_server.py:217
MAX_MESSAGE_SIZE == 1048576     \* 1024 * 1024, main_server.py:125
FILE_LINKS_MAX == 100   \* ChatWidget._file_links_max_size, client_gui.py:505
FILE_LINKS_TTL == 3600  \* ChatWidget._file_links_ttl_seconds, client_gui.py:506
MTU_SIZE == 1400        \* VideoClient.MTU_SIZE, video_client.py:29
SCREEN_EPHEMERAL_START == 11001 \* ScreenServer.next_ephemeral_port, screen_server.py:25

Names == {"alice"}
Texts == {"hi"}
Topic == "demo"
UnknownUid == 999       \* a uid no connection of a bounded run is given

Fids == {"f1", "f2"}
\* Filenames as pathlib splits them: a plain name, and one with a directory
\* component that leads out of the directory it is joined to.
FileNames == {<<"a.txt">>, <<"..", "a.txt">>}

\* An unsigned 32-bit number is a pair <<high, low>> of 16-bit limbs, so that
\* the arithmetic modulo 2^32 is the code's.
Limb == 2 ^ 16

\* The audio senders, their sequence numbers (the lowest, the highest and
\* their neighbours) and their timestamps (MAX_LATE_MS apart and 1 more).
AudioUids == {1, 2}
SeqVals == {<<0, 0>>, <<0, 1>>, <<0, 2>>, <<Limb - 1, Limb - 1>>}
Timestamps == {0, MAX_LATE_MS, MAX_LATE_MS + 1}

\* The asyncio tasks: one per control connection, one per connection to an
\* ephemeral port, one cleanup_server task per ephemeral port.
LastConn == IF MaxConn > MaxBcConn THEN MaxConn ELSE MaxBcConn
Conns == 1..LastConn
XferTasks == (LastConn + 1)..(LastConn + MaxXfer)
CleanupTasks == (LastConn + MaxXfer + 1)..(LastConn + MaxXfer + MaxSeqLines)
Tasks == Conns \cup XferTasks \cup CleanupTasks
NoConn == 0

VARIABLES
    next_uid,       \* ChatServer.next_uid
    clients,        \* CollaborationServer.clients : uid -> writer (a connection)
    participants,   \* ChatServer.participants : uid -> username
    chat_history,   \* ChatServer.chat_history (deque, maxlen MAX_CHAT_HISTORY)
    lockHolder,     \* ChatServer.lock : the task holding it, or NoConn
    lockWaiters,    \* ChatServer.lock : tasks queued on it, in order
    running,        \* the task the event loop is running, or NoConn
    pc,             \* each task's position
    wait,           \* what a suspended task waits for
    loc,            \* each task's local variables
    recv,           \* the messages written to each live connection
    rlog,           \* the chat messages broadcast to each, in the order written
    closed,         \* connections whose writer the server closed
    broken,         \* connections whose peer is gone (writes fail)
    issued,         \* the uids get_next_uid returned, in order
    nlines,         \* control lines read so far
    files,          \* FileServer.files : fid -> metadata
    upload_sessions,    \* FileServer.upload_sessions : port -> session info
    download_sessions,  \* FileServer.download_sessions : port -> session info
    next_ephemeral_port,    \* FileServer.next_ephemeral_port
    flockHolder,    \* FileServer.lock : the task holding it, or NoConn
    flockWaiters,   \* FileServer.lock : tasks queued on it, in order
    listeners,      \* the servers start_server made : port -> session info
    fs,             \* the file system's directory entries : path -> inode
    inodes,         \* the file system's files : inode -> bytes
    uploaded,       \* per fid, the bytes its uploader sent in the upload
                    \* that files[fid] records
    aclients,       \* AudioServer.clients : uid -> ClientInfo
    decoders,       \* AudioServer.decoders : the uids that have a decoder
    last_timestamp_by_client,   \* AudioServer.last_timestamp_by_client
    mix_queue,      \* AudioServer.mix_queue : (uid, frame, timestamp)
    mixpc,          \* where the mixing thread is: "sleep" or "drained"
    frames_to_mix,  \* the mixing thread's local frames_to_mix
    tick,           \* what the mixing thread's last tick did
    enqueued,       \* the frames ever appended to mix_queue
    mixed,          \* the frames mixed into a broadcast so far, in order
    last,           \* the last datagram handled and what became of it
    sender,         \* per uid, what its datagrams so far amount to
    npackets,       \* audio datagrams handled so far
    vclients,       \* VideoServer.clients : uid -> its ClientVideoInfo object
    vobjs,          \* the ClientVideoInfo objects made so far
    chunk_buffers,  \* VideoServer.chunk_buffers : uid -> frame_id -> slot
    broadcast_queue,    \* VideoServer.broadcast_queue
    bw,             \* the broadcast worker: its frame and the clients left
    vlast,          \* the last video datagram handled and what became of it
    varrived,       \* per frame of the senders, how often each chunk came
    assembled,      \* per frame of the senders, the frames assembled
    fan,            \* the fan-out of the frame the worker took last
    fanned,         \* the (uid, frame_id) of the frames the worker took
    vpackets,       \* video datagrams handled so far
    vswept,         \* the (uid, frame id) of the slots the sweep discarded
    presentations,  \* ScreenServer.presentations : uid -> its presentation
    pobjs,          \* the presentation dicts made so far
    screen_next_port,   \* ScreenServer.next_ephemeral_port
    servers,        \* the listening servers : port -> presentation and role
    slock,          \* ScreenServer.lock : its holder and its waiters
    srunning,       \* the screen-sharing task the event loop runs, or NoTask
    stasks,         \* the screen-sharing tasks
    pconns,         \* the connections made to presenter ports
    vconns,         \* the connections made to viewer ports
    srecv,          \* the messages written to each control connection
    slast,          \* per uid, its last present_start or present_stop
    slines,         \* present_start and present_stop lines handled so far
    file_links,     \* ChatWidget._file_links, in dict order: fid, timestamp
    gclock,         \* what time.time() returns in the client, in seconds
    gnext,          \* the fid of the next file the client is notified of
    gops,           \* operations of the chat widget so far
    glast           \* the widget's last operation and the links before it

ctlVars == <<next_uid, clients, participants, chat_history, lockHolder,
             lockWaiters, running, pc, wait, loc, recv, rlog, closed,
             broken, issued, nlines>>

fileVars == <<files, upload_sessions, download_sessions, next_ephemeral_port,
              flockHolder, flockWaiters, listeners, fs, inodes, uploaded>>

mixVars == <<mixpc, frames_to_mix, tick, mixed>>

audioVars == <<aclients, decoders, last_timestamp_by_client, mix_queue, last,
               sender, npackets, enqueued, mixVars>>

videoVars == <<vclients, vobjs, chunk_buffers, broadcast_queue, bw, vlast,
               varrived, assembled, fan, fanned, vpackets, vswept>>

screenVars == <<presentations, pobjs, screen_next_port, servers, slock,
                srunning, stasks, pconns, vconns, srecv, slast, slines>>

guiVars == <<file_links, gclock, gnext, gops, glast>>

nonCtlVars == <<fileVars, audioVars, videoVars, screenVars, guiVars>>

nonFileVars == <<audioVars, videoVars, screenVars, guiVars>>

nonAudioVars == <<ctlVars, fileVars, videoVars, screenVars, guiVars>>

nonVideoVars == <<ctlVars, fileVars, audioVars, screenVars, guiVars>>

nonScreenVars == <<ctlVars, fileVars, audioVars, videoVars, guiVars>>

nonGuiVars == <<ctlVars, fileVars, audioVars, videoVars, screenVars>>

(***************************************************************************)
(* Messages.                                                               *)
(***************************************************************************)
\* An inbound control line, after json.loads.
Line(kind, username, target, text) ==
    [kind |-> kind, username |-> username, target |-> target, text |-> text,
     fid |-> "", filename |-> <<>>, size |-> 0]

\* A file_offer or file_request line.
FileLine(kind, fid, filename, size) ==
    [kind |-> kind, username |-> "", target |-> 0, text |-> "",
     fid |-> fid, filename |-> filename, size |-> size]

NoLine == Line("", "", 0, "")

\* The lines a client may send: one per dispatch branch of handle_client.
Lines ==
    {Line("login", n, 0, "") : n \in Names}
    \cup {Line("heartbeat", "", 0, ""), Line("logout", "", 0, ""),
          Line("malformed", "", 0, ""), Line("unknown", "", 0, "")}
    \cup {Line("chat", "", 0, t) : t \in Texts}
    \cup {Line("unicast", "", u, t) : u \in {0, 1, UnknownUid}, t \in Texts}

\* An outbound message (protocol_definitions.create_*_message and the chat
\* records built in the handlers); timestamps are left out.
Out(type, uid, username, to, members, text) ==
    [type |-> type, uid |-> uid, username |-> username, to |-> to,
     members |-> members, text |-> text,
     fid |-> "", filename |-> <<>>, size |-> 0, port |-> 0,
     messages |-> <<>>, count |-> 0]

\* create_file_upload_port_message, create_file_download_port_message and
\* create_file_available_message.
FileOut(type, fid, filename, size, uploader, port) ==
    [type |-> type, uid |-> 0, username |-> uploader, to |-> 0,
     members |-> {}, text |-> "",
     fid |-> fid, filename |-> filename, size |-> size, port |-> port,
     messages |-> <<>>, count |-> 0]

\* create_history_message.
HistoryOut(messages) ==
    [type |-> "history", uid |-> 0, username |-> "", to |-> 0,
     members |-> {}, text |-> "",
     fid |-> "", filename |-> <<>>, size |-> 0, port |-> 0,
     messages |-> messages, count |-> Len(messages)]

NoOut == Out("", 0, "", 0, {}, "")

\* list(self.participants.values()): the (uid, username) pairs.
Snapshot(p) == {<<u, p[u]>> : u \in DOMAIN p}

RECURSIVE SortedSeq(_)
\* The keys of a dict in insertion order; uids are inserted in increasing order.
SortedSeq(S) ==
    IF S = {} THEN <<>>
    ELSE LET m == CHOOSE x \in S : \A y \in S : x <= y
         IN <<m>> \o SortedSeq(S \ {m})

\* d[k] = v
DictSet(d, k, v) == [x \in (DOMAIN d) \cup {k} |-> IF x = k THEN v ELSE d[x]]

\* del d[k]
DictDel(d, k) == [x \in (DOMAIN d) \ {k} |-> d[x]]

\* A deque that drops its oldest record one append too late.
HistoryAppendLate(h, m) ==
    IF Len(h) > MAX_CHAT_HISTORY THEN Append(Tail(h), m) ELSE Append(h, m)

\* deque(maxlen=MAX_CHAT_HISTORY).append
\* The record is put in front of the others.
HistoryPrepend(h, m) == <<m>> \o h

HistoryAppend(h, m) ==
    IF Len(h) >= MAX_CHAT_HISTORY THEN Append(Tail(h), m) ELSE Append(h, m)

\* A transfer session's info (the session_info dict of file_server.py).
Session(fid, filename, size, user, uid, port) ==
    [fid |-> fid, filename |-> filename, size |-> size, user |-> user,
     uid |-> uid, port |-> port]

NoSession == Session("", <<>>, 0, "", 0, 0)

\* A task's locals: those of the control handlers, and sess (session_info),
\* path (file_path), got (bytes_received or bytes_sent), ino and buf (the
\* open file object: its file and its unflushed bytes), stream (the bytes
\* written to the transfer connection), complete (the transfer finished).
L0 == [uid |-> 0, msg |-> NoLine, plist |-> {}, out |-> NoOut, to |-> 0,
       excl |-> 0, it |-> <<>>, used |-> 0, ret |-> "", dret |-> "",
       tname |-> "", sess |-> NoSession, path |-> <<>>, got |-> 0,
       ino |-> 0, buf |-> <<>>, stream |-> <<>>, complete |-> FALSE]

(***************************************************************************)
(* asyncio.Lock: FIFO; acquire suspends only when the lock is taken or     *)
(* somebody is queued; release wakes the first waiter.                     *)
(***************************************************************************)
\* `async with self.lock` entered by running task c, which continues at next.
Acquire(c, next) ==
    /\ pc' = [pc EXCEPT ![c] = next]
    /\ IF lockHolder = NoConn /\ lockWaiters = <<>>
       THEN /\ lockHolder' = c
            /\ UNCHANGED <<lockWaiters, running, wait>>
       ELSE /\ lockWaiters' = Append(lockWaiters, c)
            /\ wait' = [wait EXCEPT ![c] = "lock"]
            /\ running' = NoConn
            /\ UNCHANGED lockHolder

\* Leaving `async with self.lock`; the task keeps running at next.
Release(c, next) ==
    /\ pc' = [pc EXCEPT ![c] = next]
    /\ IF lockWaiters = <<>>
       THEN lockHolder' = NoConn /\ UNCHANGED lockWaiters
       ELSE lockHolder' = Head(lockWaiters) /\ lockWaiters' = Tail(lockWaiters)
    /\ UNCHANGED <<running, wait>>

\* Leaving one `async with self.lock` and entering the next with no await
\* between: the task keeps the lock unless somebody is queued.
ReleaseAcquire(c, next) ==
    /\ pc' = [pc EXCEPT ![c] = next]
    /\ IF lockWaiters = <<>>
       THEN UNCHANGED <<lockHolder, lockWaiters, running, wait>>
       ELSE /\ lockHolder' = Head(lockWaiters)
            /\ lockWaiters' = Append(Tail(lockWaiters), c)
            /\ wait' = [wait EXCEPT ![c] = "lock"]
            /\ running' = NoConn

\* The running task suspends in an await on I/O and resumes at next.
SuspendIO(c, next) ==
    /\ pc' = [pc EXCEPT ![c] = next]
    /\ wait' = [wait EXCEPT ![c] = "io"]
    /\ running' = NoConn

\* Where an exception raised in a handler lands: the `except Exception` of
\* the read loop, or, from the `finally` clause, the end of the task.
ExcTarget(c) ==
    IF c \in XferTasks THEN "fu_except"
    ELSE IF loc[c].dret = "main_del" THEN "dead" ELSE "ret_loop"

(***************************************************************************)
(* ChatServer.get_next_uid: the uid returned and the counter left behind.  *)
(***************************************************************************)
get_next_uid_no_increment == [uid |-> next_uid, next |-> next_uid]

get_next_uid == [uid |-> next_uid, next |-> next_uid + 1]

(***************************************************************************)
(* CollaborationServer.handle_client                                       *)
(***************************************************************************)
\* A connection is accepted: the task runs up to its first readline.
handle_client_accept_upto(limit) ==
    /\ running = NoConn
    /\ Len(issued) < limit
    /\ LET c == Len(issued) + 1
           g == get_next_uid
       IN /\ next_uid' = g.next
          /\ issued' = Append(issued, g.uid)
          /\ loc' = [loc EXCEPT ![c] = [L0 EXCEPT !.uid = g.uid]]
          /\ IF g.uid < 0 \/ g.uid > MAX_UID
             THEN /\ closed' = closed \cup {c}
                  /\ pc' = [pc EXCEPT ![c] = "done"]
                  /\ wait' = [wait EXCEPT ![c] = "done"]
                  /\ UNCHANGED clients
             ELSE /\ clients' = DictSet(clients, g.uid, c)
                  /\ pc' = [pc EXCEPT ![c] = "readline"]
                  /\ wait' = [wait EXCEPT ![c] = "readline"]
                  /\ UNCHANGED closed
    /\ UNCHANGED <<participants, chat_history, lockHolder, lockWaiters,
                   running, recv, rlog, broken, nlines>>
    /\ UNCHANGED nonCtlVars

handle_client_accept == handle_client_accept_upto(MaxConn)

\* The pc a line of each kind is dispatched to.
Dispatch(kind) ==
    CASE kind = "login" -> "login"
      [] kind = "heartbeat" -> "heartbeat"
      [] kind = "chat" -> "chat"
      [] kind = "broadcast" -> "chat"
      [] kind = "get_history" -> "get_history"
      [] kind = "unicast" -> "unicast"
      [] kind = "logout" -> "logout"
      [] kind = "malformed" -> "malformed"
      [] kind = "too_large" -> "malformed"
      [] kind = "overrun" -> "finally"
      [] kind = "file_offer" -> "file_offer"
      [] kind = "file_request" -> "file_request"
      [] kind \in {"invalid_utf8", "non_object", "invalid_type", "unknown"}
         -> "ret_loop"
      [] OTHER -> "ret_loop"

\* readline returns a line: the task parses it and enters the handler.
ReadLineUpTo(c, m, limit) ==
    /\ running = NoConn
    /\ pc[c] = "readline"
    /\ c \notin closed \cup broken
    /\ nlines < limit
    /\ nlines' = nlines + 1
    /\ running' = c
    /\ wait' = [wait EXCEPT ![c] = "none"]
    /\ loc' = [loc EXCEPT ![c].msg = m]
    /\ pc' = [pc EXCEPT ![c] = Dispatch(m.kind)]
    /\ UNCHANGED <<next_uid, clients, participants, chat_history, lockHolder,
                   lockWaiters, recv, rlog, closed, broken, issued>>
    /\ UNCHANGED nonCtlVars

ReadLine(c, m) == ReadLineUpTo(c, m, MaxLines)

\* readline returns b'' (or raises): the loop ends and `finally` runs.
ReadEof(c) ==
    /\ running = NoConn
    /\ pc[c] = "readline"
    /\ running' = c
    /\ wait' = [wait EXCEPT ![c] = "none"]
    /\ pc' = [pc EXCEPT ![c] = "finally"]
    /\ UNCHANGED <<next_uid, clients, participants, chat_history, lockHolder,
                   lockWaiters, loc, recv, rlog, closed, broken, issued, nlines>>
    /\ UNCHANGED nonCtlVars

\* The peer of a connection goes away: later writes to it fail. (The peer
\* of one connection that has not sent or been sent anything.)
PeerGone(c) ==
    /\ running = NoConn
    /\ pc[c] = "readline"
    /\ recv[c] = {}
    /\ loc[c].uid \notin DOMAIN participants
    /\ c \notin broken \cup closed
    /\ broken = {}
    /\ broken' = broken \cup {c}
    /\ UNCHANGED <<next_uid, clients, participants, chat_history, lockHolder,
                   lockWaiters, running, pc, wait, loc, recv, rlog, closed, issued,
                   nlines>>
    /\ UNCHANGED nonCtlVars

\* The error replies of the read loop: json.JSONDecodeError, and a line
\* of more than MAX_MESSAGE_SIZE bytes.
Malformed(c) ==
    /\ running = c
    /\ pc[c] = "malformed"
    /\ loc' = [loc EXCEPT ![c].to = loc[c].uid,
                          ![c].out = Out("error", 0, "", 0, {},
                                         IF loc[c].msg.kind = "too_large"
                                         THEN "Message too large"
                                         ELSE "Malformed JSON"),
                          ![c].ret = "ret_loop"]
    /\ Acquire(c, "sm_locked")
    /\ UNCHANGED <<next_uid, clients, participants, chat_history, recv, rlog,
                   closed, broken, issued, nlines>>
    /\ UNCHANGED nonCtlVars

\* The handler returned (or its exception was logged): back to readline.
HandlerReturn(c) ==
    /\ running = c
    /\ pc[c] = "ret_loop"
    /\ pc' = [pc EXCEPT ![c] = "readline"]
    /\ wait' = [wait EXCEPT ![c] = "readline"]
    /\ running' = NoConn
    /\ loc' = [loc EXCEPT ![c] = [L0 EXCEPT !.uid = loc[c].uid]]
    /\ UNCHANGED <<next_uid, clients, participants, chat_history, lockHolder,
                   lockWaiters, recv, rlog, closed, broken, issued, nlines>>
    /\ UNCHANGED nonCtlVars

\* The event loop resumes a task whose await is over.
Resume(c) ==
    /\ running = NoConn
    /\ \/ wait[c] = "io"
       \/ wait[c] = "lock" /\ lockHolder = c
       \/ wait[c] = "flock" /\ flockHolder = c
    /\ running' = c
    /\ wait' = [wait EXCEPT ![c] = "none"]
    /\ UNCHANGED <<next_uid, clients, participants, chat_history, lockHolder,
                   lockWaiters, pc, loc, recv, rlog, closed, broken, issued, nlines>>
    /\ UNCHANGED nonCtlVars

(***************************************************************************)
(* ChatServer.send_message: the caller set loc.to, loc.out and loc.ret and *)
(* entered `async with self.lock`.                                         *)
(***************************************************************************)
send_message(c) ==
    /\ running = c
    /\ pc[c] = "sm_locked"
    /\ lockHolder = c
    /\ LET to == loc[c].to IN
       IF to \notin DOMAIN clients \/ clients[to] \in broken
       THEN \* writer is None, or the write raises: return False
            /\ Release(c, loc[c].ret)
            /\ UNCHANGED <<recv, rlog>>
       ELSE \* write, then await drain
            /\ recv' = [recv EXCEPT ![clients[to]] = @ \cup {loc[c].out}]
            /\ UNCHANGED rlog
            /\ pc' = [pc EXCEPT ![c] = loc[c].ret]
            /\ wait' = [wait EXCEPT ![c] = "io"]
            /\ running' = NoConn
            /\ IF lockWaiters = <<>>
               THEN lockHolder' = NoConn /\ UNCHANGED lockWaiters
               ELSE lockHolder' = Head(lockWaiters) /\ lockWaiters' = Tail(lockWaiters)
    /\ UNCHANGED <<next_uid, clients, participants, chat_history, loc, closed,
                   broken, issued, nlines>>
    /\ UNCHANGED nonCtlVars

(***************************************************************************)
(* ChatServer.broadcast: the caller set loc.out, loc.excl and loc.ret and  *)
(* entered `async with self.lock`.                                         *)
(***************************************************************************)
\* for uid, writer in clients.items(): the iterator is created.
broadcast_iter(c) ==
    /\ running = c
    /\ pc[c] = "bc_locked"
    /\ lockHolder = c
    /\ loc' = [loc EXCEPT ![c].it = SortedSeq(DOMAIN clients),
                          ![c].used = Cardinality(DOMAIN clients)]
    /\ pc' = [pc EXCEPT ![c] = "bc_next"]
    /\ UNCHANGED <<next_uid, clients, participants, chat_history, lockHolder,
                   lockWaiters, running, wait, recv, rlog, closed, broken, issued,
                   nlines>>
    /\ UNCHANGED nonCtlVars

\* One turn of the loop: next() on the dict iterator, then the body.
broadcast_next(c) ==
    /\ running = c
    /\ pc[c] = "bc_next"
    /\ lockHolder = c
    /\ IF Cardinality(DOMAIN clients) # loc[c].used
       THEN \* RuntimeError: dictionary changed size during iteration
            /\ Release(c, ExcTarget(c))
            /\ UNCHANGED <<loc, recv, rlog>>
       ELSE IF loc[c].it = <<>>
       THEN \* the loop is over: return disconnected
            /\ Release(c, loc[c].ret)
            /\ UNCHANGED <<loc, recv, rlog>>
       ELSE LET u == Head(loc[c].it) IN
            /\ loc' = [loc EXCEPT ![c].it = Tail(@)]
            /\ IF u = loc[c].excl \/ clients[u] \in broken
               THEN \* continue, or the write raised and uid was noted
                    UNCHANGED <<pc, wait, running, recv, rlog, lockHolder, lockWaiters>>
               ELSE \* write, then await drain with the lock held
                    /\ recv' = [recv EXCEPT ![clients[u]] = @ \cup {loc[c].out}]
                    /\ rlog' = IF loc[c].out.type \in {"chat", "broadcast"}
                               THEN [rlog EXCEPT ![clients[u]] = Append(@, loc[c].out)]
                               ELSE rlog
                    /\ SuspendIO(c, "bc_next")
                    /\ UNCHANGED <<lockHolder, lockWaiters>>
    /\ UNCHANGED <<next_uid, clients, participants, chat_history, closed,
                   broken, issued, nlines>>
    /\ UNCHANGED nonCtlVars

(***************************************************************************)
(* ChatServer.handle_login                                                 *)
(***************************************************************************)
handle_login(c) ==
    /\ running = c
    /\ pc[c] = "login"
    /\ Acquire(c, "login_reg")
    /\ UNCHANGED <<next_uid, clients, participants, chat_history, loc, recv, rlog,
                   closed, broken, issued, nlines>>
    /\ UNCHANGED nonCtlVars

\* self.participants[uid] = {...}; then send_message(login_success).
handle_login_register(c) ==
    /\ running = c
    /\ pc[c] = "login_reg"
    /\ lockHolder = c
    /\ participants' = DictSet(participants, loc[c].uid, loc[c].msg.username)
    /\ loc' = [loc EXCEPT ![c].to = loc[c].uid,
                          ![c].out = Out("login_success", loc[c].uid,
                                         loc[c].msg.username, 0, {}, ""),
                          ![c].ret = "login_snap"]
    /\ ReleaseAcquire(c, "sm_locked")
    /\ UNCHANGED <<next_uid, clients, chat_history, recv, rlog, closed, broken,
                   issued, nlines>>
    /\ UNCHANGED nonCtlVars

handle_login_snap(c) ==
    /\ running = c
    /\ pc[c] = "login_snap"
    /\ Acquire(c, "login_snapped")
    /\ UNCHANGED <<next_uid, clients, participants, chat_history, loc, recv, rlog,
                   closed, broken, issued, nlines>>
    /\ UNCHANGED nonCtlVars

\* participants_list = list(...); then broadcast(user_joined, exclude_uid=uid).
handle_login_joined(c) ==
    /\ running = c
    /\ pc[c] = "login_snapped"
    /\ lockHolder = c
    /\ loc' = [loc EXCEPT ![c].plist = Snapshot(participants),
                          ![c].out = Out("user_joined", loc[c].uid,
                                         loc[c].msg.username, 0, {}, ""),
                          ![c].excl = loc[c].uid,
                          ![c].ret = "login_list"]
    /\ ReleaseAcquire(c, "bc_locked")
    /\ UNCHANGED <<next_uid, clients, participants, chat_history, recv, rlog,
                   closed, broken, issued, nlines>>
    /\ UNCHANGED nonCtlVars

\* broadcast(participant_list) to all clients.
handle_login_list(c) ==
    /\ running = c
    /\ pc[c] = "login_list"
    /\ loc' = [loc EXCEPT ![c].out = Out("participant_list", 0, "", 0,
                                         loc[c].plist, ""),
                          ![c].excl = 0,
                          ![c].ret = "ret_loop"]
    /\ Acquire(c, "bc_locked")
    /\ UNCHANGED <<next_uid, clients, participants, chat_history, recv, rlog,
                   closed, broken, issued, nlines>>
    /\ UNCHANGED nonCtlVars

(***************************************************************************)
(* ChatServer.handle_heartbeat                                             *)
(***************************************************************************)
handle_heartbeat(c) ==
    /\ running = c
    /\ pc[c] = "heartbeat"
    /\ Acquire(c, "hb_snapped")
    /\ UNCHANGED <<next_uid, clients, participants, chat_history, loc, recv, rlog,
                   closed, broken, issued, nlines>>
    /\ UNCHANGED nonCtlVars

\* participants_list = list(...); then send_message(heartbeat_ack).
handle_heartbeat_ack(c) ==
    /\ running = c
    /\ pc[c] = "hb_snapped"
    /\ lockHolder = c
    /\ loc' = [loc EXCEPT ![c].plist = Snapshot(participants),
                          ![c].to = loc[c].uid,
                          ![c].out = Out("heartbeat_ack", 0, "", 0, {}, ""),
                          ![c].ret = "hb_list"]
    /\ ReleaseAcquire(c, "sm_locked")
    /\ UNCHANGED <<next_uid, clients, participants, chat_history, recv, rlog,
                   closed, broken, issued, nlines>>
    /\ UNCHANGED nonCtlVars

\* send_message(participant_list) to the sender.
handle_heartbeat_list(c) ==
    /\ running = c
    /\ pc[c] = "hb_list"
    /\ loc' = [loc EXCEPT ![c].out = Out("participant_list", 0, "", 0,
                                         loc[c].plist, ""),
                          ![c].ret = "ret_loop"]
    /\ Acquire(c, "sm_locked")
    /\ UNCHANGED <<next_uid, clients, participants, chat_history, recv, rlog,
                   closed, broken, issued, nlines>>
    /\ UNCHANGED nonCtlVars

\* self.participants.get(uid, {}).get('username', 'unknown')
UsernameOf(uid) ==
    IF uid \in DOMAIN participants THEN participants[uid] ELSE "unknown"

(***************************************************************************)
(* ChatServer.handle_chat                                                  *)
(***************************************************************************)
handle_chat(c) ==
    /\ running = c
    /\ pc[c] = "chat"
    /\ loc' = [loc EXCEPT ![c].out = Out(loc[c].msg.kind, loc[c].uid,
                                         UsernameOf(loc[c].uid), 0, {},
                                         loc[c].msg.text),
                          ![c].excl = 0,
                          ![c].ret = "ret_loop"]
    /\ Acquire(c, "chat_append")
    /\ UNCHANGED <<next_uid, clients, participants, chat_history, recv, rlog,
                   closed, broken, issued, nlines>>
    /\ UNCHANGED nonCtlVars

\* self.chat_history.append(chat_message); then broadcast(chat_message).
handle_chat_append(c) ==
    /\ running = c
    /\ pc[c] = "chat_append"
    /\ lockHolder = c
    /\ chat_history' = HistoryAppend(chat_history, loc[c].out)
    /\ ReleaseAcquire(c, "bc_locked")
    /\ UNCHANGED <<next_uid, clients, participants, loc, recv, rlog, closed,
                   broken, issued, nlines>>
    /\ UNCHANGED nonCtlVars

(***************************************************************************)
(* ChatServer.handle_unicast                                               *)
(***************************************************************************)
handle_unicast(c) ==
    /\ running = c
    /\ pc[c] = "unicast"
    /\ IF loc[c].msg.target = 0
       THEN \* not target_uid: send_message(error); return
            /\ loc' = [loc EXCEPT ![c].to = loc[c].uid,
                                  ![c].out = Out("error", 0, "", 0, {},
                                                 "Missing target_uid for unicast"),
                                  ![c].ret = "ret_loop"]
            /\ Acquire(c, "sm_locked")
       ELSE /\ Acquire(c, "uni_check")
            /\ UNCHANGED loc
    /\ UNCHANGED <<next_uid, clients, participants, chat_history, recv, rlog,
                   closed, broken, issued, nlines>>
    /\ UNCHANGED nonCtlVars

\* Inside `async with self.lock`: the target is looked up. For an unknown
\* target send_message is awaited with the lock still held, and
\* send_message enters `async with self.lock` itself.
handle_unicast_check(c) ==
    /\ running = c
    /\ pc[c] = "uni_check"
    /\ lockHolder = c
    /\ LET t == loc[c].msg.target IN
       IF t \notin DOMAIN participants
       THEN /\ loc' = [loc EXCEPT ![c].to = loc[c].uid,
                                  ![c].out = Out("error", t, "", 0, {},
                                                 "User with uid not found"),
                                  ![c].ret = "uni_err_ret"]
            /\ Acquire(c, "sm_locked")
       ELSE /\ loc' = [loc EXCEPT ![c].tname = participants[t],
                                  ![c].out = Out("unicast", loc[c].uid,
                                                 UsernameOf(loc[c].uid), t, {},
                                                 loc[c].msg.text)]
            /\ ReleaseAcquire(c, "uni_append")
    /\ UNCHANGED <<next_uid, clients, participants, chat_history, recv, rlog,
                   closed, broken, issued, nlines>>
    /\ UNCHANGED nonCtlVars

\* self.chat_history.append(unicast_message); then send_message to the target.
handle_unicast_append(c) ==
    /\ running = c
    /\ pc[c] = "uni_append"
    /\ lockHolder = c
    /\ chat_history' = HistoryAppend(chat_history, loc[c].out)
    /\ loc' = [loc EXCEPT ![c].to = loc[c].msg.target,
                          ![c].ret = "uni_confirm"]
    /\ ReleaseAcquire(c, "sm_locked")
    /\ UNCHANGED <<next_uid, clients, participants, recv, rlog, closed, broken,
                   issued, nlines>>
    /\ UNCHANGED nonCtlVars

\* send_message(unicast_sent) to the sender.
handle_unicast_confirm(c) ==
    /\ running = c
    /\ pc[c] = "uni_confirm"
    /\ loc' = [loc EXCEPT ![c].to = loc[c].uid,
                          ![c].out = Out("unicast_sent", 0, loc[c].tname,
                                         loc[c].msg.target, {}, ""),
                          ![c].ret = "ret_loop"]
    /\ Acquire(c, "sm_locked")
    /\ UNCHANGED <<next_uid, clients, participants, chat_history, recv, rlog,
                   closed, broken, issued, nlines>>
    /\ UNCHANGED nonCtlVars

(***************************************************************************)
(* ChatServer.handle_get_history                                           *)
(***************************************************************************)
handle_get_history(c) ==
    /\ running = c
    /\ pc[c] = "get_history"
    /\ Acquire(c, "gh_locked")
    /\ UNCHANGED <<next_uid, clients, participants, chat_history, loc, recv, rlog,
                   closed, broken, issued, nlines>>
    /\ UNCHANGED nonCtlVars

\* history_list = list(self.chat_history); then send_message(history).
handle_get_history_copy(c) ==
    /\ running = c
    /\ pc[c] = "gh_locked"
    /\ lockHolder = c
    /\ loc' = [loc EXCEPT ![c].to = loc[c].uid,
                          ![c].out = HistoryOut(chat_history),
                          ![c].ret = "ret_loop"]
    /\ ReleaseAcquire(c, "sm_locked")
    /\ UNCHANGED <<next_uid, clients, participants, chat_history, recv, rlog,
                   closed, broken, issued, nlines>>
    /\ UNCHANGED nonCtlVars

(***************************************************************************)
(* ChatServer.handle_logout, CollaborationServer.disconnect_client and     *)
(* ChatServer.disconnect_client                                            *)
(***************************************************************************)
handle_logout(c) ==
    /\ running = c
    /\ pc[c] = "logout"
    /\ loc' = [loc EXCEPT ![c].dret = "finally"]
    /\ Acquire(c, "dc_locked")
    /\ UNCHANGED <<next_uid, clients, participants, chat_history, recv, rlog,
                   closed, broken, issued, nlines>>
    /\ UNCHANGED nonCtlVars

\* The `finally` of handle_client: CollaborationServer.disconnect_client.
main_disconnect_client(c) ==
    /\ running = c
    /\ pc[c] = "finally"
    /\ loc' = [loc EXCEPT ![c].dret = "main_del"]
    /\ Acquire(c, "dc_locked")
    /\ UNCHANGED <<next_uid, clients, participants, chat_history, recv, rlog,
                   closed, broken, issued, nlines>>
    /\ UNCHANGED nonCtlVars

\* if uid in clients: writer.close(); await writer.wait_closed()
disconnect_client_close(c) ==
    /\ running = c
    /\ pc[c] = "dc_locked"
    /\ lockHolder = c
    /\ IF loc[c].uid \in DOMAIN clients
       THEN /\ closed' = closed \cup {clients[loc[c].uid]}
            /\ SuspendIO(c, "dc_del")
       ELSE /\ pc' = [pc EXCEPT ![c] = "dc_part"]
            /\ UNCHANGED <<closed, wait, running>>
    /\ UNCHANGED <<next_uid, clients, participants, chat_history, lockHolder,
                   lockWaiters, loc, recv, rlog, broken, issued, nlines>>
    /\ UNCHANGED nonCtlVars

\* del clients[uid]
disconnect_client_del(c) ==
    /\ running = c
    /\ pc[c] = "dc_del"
    /\ lockHolder = c
    /\ clients' = DictDel(clients, loc[c].uid)
    /\ pc' = [pc EXCEPT ![c] = "dc_part"]
    /\ UNCHANGED <<next_uid, participants, chat_history, lockHolder,
                   lockWaiters, running, wait, loc, recv, rlog, closed, broken,
                   issued, nlines>>
    /\ UNCHANGED nonCtlVars

\* if uid in self.participants: del it and take the list; then, outside
\* the lock, broadcast(user_left) when a user was removed.
disconnect_client_part(c) ==
    /\ running = c
    /\ pc[c] = "dc_part"
    /\ lockHolder = c
    /\ IF loc[c].uid \in DOMAIN participants
       THEN /\ participants' = DictDel(participants, loc[c].uid)
            /\ loc' = [loc EXCEPT ![c].plist = Snapshot(participants'),
                                  ![c].out = Out("user_left", loc[c].uid,
                                                 participants[loc[c].uid], 0, {}, ""),
                                  ![c].excl = 0,
                                  ![c].ret = "dc_list"]
            /\ ReleaseAcquire(c, "bc_locked")
       ELSE /\ Release(c, loc[c].dret)
            /\ UNCHANGED <<participants, loc>>
    /\ UNCHANGED <<next_uid, clients, chat_history, recv, rlog, closed, broken,
                   issued, nlines>>
    /\ UNCHANGED nonCtlVars

\* broadcast(participant_list) to all clients.
disconnect_client_list(c) ==
    /\ running = c
    /\ pc[c] = "dc_list"
    /\ loc' = [loc EXCEPT ![c].out = Out("participant_list", 0, "", 0,
                                         loc[c].plist, ""),
                          ![c].ret = loc[c].dret]
    /\ Acquire(c, "bc_locked")
    /\ UNCHANGED <<next_uid, clients, participants, chat_history, recv, rlog,
                   closed, broken, issued, nlines>>
    /\ UNCHANGED nonCtlVars

\* if uid in self.clients: del self.clients[uid]; the task ends. A task
\* whose `finally` raised ends too.
main_disconnect_del(c) ==
    /\ running = c
    /\ pc[c] \in {"main_del", "dead"}
    /\ clients' = IF pc[c] = "main_del" /\ loc[c].uid \in DOMAIN clients
                  THEN DictDel(clients, loc[c].uid) ELSE clients
    /\ pc' = [pc EXCEPT ![c] = "done"]
    /\ wait' = [wait EXCEPT ![c] = "done"]
    /\ running' = NoConn
    /\ loc' = [loc EXCEPT ![c] = [L0 EXCEPT !.uid = loc[c].uid]]
    /\ recv' = [recv EXCEPT ![c] = {}]
    /\ rlog' = [rlog EXCEPT ![c] = <<>>]
    /\ UNCHANGED <<next_uid, participants, chat_history, lockHolder,
                   lockWaiters, closed, broken, issued, nlines>>
    /\ UNCHANGED nonCtlVars

(***************************************************************************)
(* FileServer.lock, an asyncio.Lock of its own.                            *)
(***************************************************************************)
\* `async with self.lock` entered by running task c, which continues at next.
FAcquire(c, next) ==
    /\ pc' = [pc EXCEPT ![c] = next]
    /\ IF flockHolder = NoConn /\ flockWaiters = <<>>
       THEN /\ flockHolder' = c
            /\ UNCHANGED <<flockWaiters, running, wait>>
       ELSE /\ flockWaiters' = Append(flockWaiters, c)
            /\ wait' = [wait EXCEPT ![c] = "flock"]
            /\ running' = NoConn
            /\ UNCHANGED flockHolder

\* Leaving `async with self.lock`: the first waiter, if any, is given the lock.
FUnlock ==
    IF flockWaiters = <<>>
    THEN flockHolder' = NoConn /\ UNCHANGED flockWaiters
    ELSE flockHolder' = Head(flockWaiters) /\ flockWaiters' = Tail(flockWaiters)

\* Leaving one `async with self.lock` and entering the next with no await
\* between.
FReleaseAcquire(c, next) ==
    /\ pc' = [pc EXCEPT ![c] = next]
    /\ IF flockWaiters = <<>>
       THEN UNCHANGED <<flockHolder, flockWaiters, running, wait>>
       ELSE /\ flockHolder' = Head(flockWaiters)
            /\ flockWaiters' = Append(Tail(flockWaiters), c)
            /\ wait' = [wait EXCEPT ![c] = "flock"]
            /\ running' = NoConn

(***************************************************************************)
(* Paths and the file system.  A path is the sequence of its components;   *)
(* an absolute path starts with "/"; the others are relative to the        *)
(* server's working directory.                                             *)
(***************************************************************************)
\* FileServer.upload_dir = Path('uploads')
upload_dir == <<"uploads">>

\* pathlib's `dir / name`: an absolute name replaces dir.
PathJoin(dir, name) ==
    IF name # <<>> /\ name[1] = "/" THEN name ELSE dir \o name

RECURSIVE Resolve(_, _)
\* The file the operating system reaches through a path: ".." leaves the
\* directory reached so far.
Resolve(reached, rest) ==
    IF rest = <<>> THEN reached
    ELSE IF Head(rest) = ".." /\ reached # <<>> /\ reached[Len(reached)] = "/"
    THEN Resolve(reached, Tail(rest))
    ELSE IF Head(rest) = ".." /\ reached # <<>> /\ reached[Len(reached)] # ".."
    THEN Resolve(SubSeq(reached, 1, Len(reached) - 1), Tail(rest))
    ELSE Resolve(Append(reached, Head(rest)), Tail(rest))

FsKey(path) == Resolve(<<>>, path)

\* file_path.exists()
Exists(path) == FsKey(path) \in DOMAIN fs

\* file_path.unlink(), guarded by exists(): the directory entry goes, the
\* file stays for those that have it open.
Unlink(path) == IF Exists(path) THEN DictDel(fs, FsKey(path)) ELSE fs

\* Leaving `with open(file_path, 'wb') as f`: the bytes f.write buffered
\* (fewer than a buffer's worth) are written from offset 0 of the file.
Flush(ino, buf) ==
    [inodes EXCEPT ![ino] = buf \o SubSeq(@, Len(buf) + 1, Len(@))]

\* The next n bytes that the peer of transfer connection t sends. The
\* server never looks into the bytes of a file, so each byte is tagged with
\* the connection that sent it.
Payload(t, n) == [i \in 1..n |-> t]

Min(a, b) == IF a < b THEN a ELSE b

\* FileServer._get_username
get_username(uid) ==
    IF uid \in DOMAIN participants THEN participants[uid]
    ELSE "user_" \o ToString(uid)

\* FileServer.get_ephemeral_port: the port returned and the counter left.
get_ephemeral_port ==
    [port |-> next_ephemeral_port, next |-> next_ephemeral_port + 1]

\* The cleanup_server task made for a port.
CleanupTask(port) == LastConn + MaxXfer + (port - EPHEMERAL_START) + 1

\* The file metadata handle_file_upload stores.
Metadata(fid, filename, size, uploader, uid, path) ==
    [fid |-> fid, filename |-> filename, size |-> size, uploader |-> uploader,
     uploader_uid |-> uid, path |-> path]

\* The lines of the transfer broker: offers (one of them invalid) and
\* requests (one of them without fid).
FileLines ==
    {FileLine("file_offer", f, n, s) : f \in Fids, n \in FileNames, s \in 1..MaxSize}
    \cup {FileLine("file_offer", "f1", <<"a.txt">>, 0)}
    \cup {FileLine("file_request", f, <<>>, 0) : f \in Fids \cup {""}}

(***************************************************************************)
(* FileServer._send_message: the caller set loc.to, loc.out and loc.ret    *)
(* and entered `async with self.lock`.                                     *)
(***************************************************************************)
file_send_message(c) ==
    /\ running = c
    /\ pc[c] = "fsm_locked"
    /\ flockHolder = c
    /\ LET to == loc[c].to IN
       IF to \notin DOMAIN clients \/ clients[to] \in broken
       THEN \* writer is None, or the write raises
            /\ FUnlock
            /\ pc' = [pc EXCEPT ![c] = loc[c].ret]
            /\ UNCHANGED <<recv, rlog, wait, running>>
       ELSE \* write, then await drain with the lock held
            /\ recv' = [recv EXCEPT ![clients[to]] = @ \cup {loc[c].out}]
            /\ UNCHANGED rlog
            /\ SuspendIO(c, "fsm_drained")
            /\ UNCHANGED <<flockHolder, flockWaiters>>
    /\ UNCHANGED <<next_uid, clients, participants, chat_history, lockHolder,
                   lockWaiters, loc, closed, broken, issued, nlines>>
    /\ UNCHANGED <<files, upload_sessions, download_sessions,
                   next_ephemeral_port, listeners, fs, inodes, uploaded>>
    /\ UNCHANGED nonFileVars

\* drain returned: the lock is released and _send_message returns.
file_send_message_done(c) ==
    /\ running = c
    /\ pc[c] = "fsm_drained"
    /\ flockHolder = c
    /\ FUnlock
    /\ pc' = [pc EXCEPT ![c] = loc[c].ret]
    /\ UNCHANGED <<next_uid, clients, participants, chat_history, lockHolder,
                   lockWaiters, running, wait, loc, recv, rlog, closed, broken,
                   issued, nlines>>
    /\ UNCHANGED <<files, upload_sessions, download_sessions,
                   next_ephemeral_port, listeners, fs, inodes, uploaded>>
    /\ UNCHANGED nonFileVars

(***************************************************************************)
(* FileServer.handle_file_offer                                            *)
(***************************************************************************)
handle_file_offer(c) ==
    /\ running = c
    /\ pc[c] = "file_offer"
    /\ LET m == loc[c].msg
           g == get_ephemeral_port
       IN IF m.fid = "" \/ m.filename = <<>> \/ m.size <= 0
          THEN \* _send_message(error); return
               /\ loc' = [loc EXCEPT ![c].to = loc[c].uid,
                                     ![c].out = Out("error", 0, "", 0, {},
                                                    "Invalid file offer"),
                                     ![c].ret = "ret_loop"]
               /\ FAcquire(c, "fsm_locked")
               /\ UNCHANGED next_ephemeral_port
          ELSE \* upload_port = get_ephemeral_port(); session_info = {...}
               /\ next_ephemeral_port' = g.next
               /\ loc' = [loc EXCEPT ![c].sess =
                              Session(m.fid, m.filename, m.size,
                                      get_username(loc[c].uid), loc[c].uid,
                                      g.port)]
               /\ FAcquire(c, "fo_session")
    /\ UNCHANGED <<next_uid, clients, participants, chat_history, lockHolder,
                   lockWaiters, recv, rlog, closed, broken, issued, nlines>>
    /\ UNCHANGED <<files, upload_sessions, download_sessions, listeners, fs,
                   inodes, uploaded>>
    /\ UNCHANGED nonFileVars

\* self.upload_sessions[upload_port] = session_info; then
\* await asyncio.start_server(accept_upload, host, upload_port).
handle_file_offer_listen(c) ==
    /\ running = c
    /\ pc[c] = "fo_session"
    /\ flockHolder = c
    /\ upload_sessions' = DictSet(upload_sessions, loc[c].sess.port, loc[c].sess)
    /\ listeners' = DictSet(listeners, loc[c].sess.port,
                            [kind |-> "upload", sess |-> loc[c].sess])
    /\ FUnlock
    /\ SuspendIO(c, "fo_started")
    /\ UNCHANGED <<next_uid, clients, participants, chat_history, lockHolder,
                   lockWaiters, loc, recv, rlog, closed, broken, issued, nlines>>
    /\ UNCHANGED <<files, download_sessions, next_ephemeral_port, fs, inodes,
                   uploaded>>
    /\ UNCHANGED nonFileVars

\* _send_message(uid, create_file_upload_port_message(fid, upload_port))
handle_file_offer_reply(c) ==
    /\ running = c
    /\ pc[c] = "fo_started"
    /\ loc' = [loc EXCEPT ![c].to = loc[c].uid,
                          ![c].out = FileOut("file_upload_port", loc[c].sess.fid,
                                             <<>>, 0, "", loc[c].sess.port),
                          ![c].ret = "fo_cleanup"]
    /\ FAcquire(c, "fsm_locked")
    /\ UNCHANGED <<next_uid, clients, participants, chat_history, lockHolder,
                   lockWaiters, recv, rlog, closed, broken, issued, nlines>>
    /\ UNCHANGED <<files, upload_sessions, download_sessions,
                   next_ephemeral_port, listeners, fs, inodes, uploaded>>
    /\ UNCHANGED nonFileVars

(***************************************************************************)
(* FileServer.handle_file_request                                          *)
(***************************************************************************)
handle_file_request(c) ==
    /\ running = c
    /\ pc[c] = "file_request"
    /\ IF loc[c].msg.fid = ""
       THEN \* _send_message(error); return
            /\ loc' = [loc EXCEPT ![c].to = loc[c].uid,
                                  ![c].out = Out("error", 0, "", 0, {},
                                                 "Invalid file request: missing fid"),
                                  ![c].ret = "ret_loop"]
            /\ FAcquire(c, "fsm_locked")
       ELSE /\ FAcquire(c, "fr_lookup")
            /\ UNCHANGED loc
    /\ UNCHANGED <<next_uid, clients, participants, chat_history, lockHolder,
                   lockWaiters, recv, rlog, closed, broken, issued, nlines>>
    /\ UNCHANGED <<files, upload_sessions, download_sessions,
                   next_ephemeral_port, listeners, fs, inodes, uploaded>>
    /\ UNCHANGED nonFileVars

\* file_info = self.files.get(fid); unknown: _send_message(error); known:
\* download_port = get_ephemeral_port(); session_info = {...}.
handle_file_request_lookup(c) ==
    /\ running = c
    /\ pc[c] = "fr_lookup"
    /\ flockHolder = c
    /\ LET fid == loc[c].msg.fid
           g == get_ephemeral_port
       IN IF fid \notin DOMAIN files
          THEN /\ loc' = [loc EXCEPT ![c].to = loc[c].uid,
                                     ![c].out = FileOut("error", fid, <<>>, 0, "", 0),
                                     ![c].ret = "ret_loop"]
               /\ FReleaseAcquire(c, "fsm_locked")
               /\ UNCHANGED next_ephemeral_port
          ELSE /\ next_ephemeral_port' = g.next
               /\ loc' = [loc EXCEPT ![c].sess =
                              Session(fid, files[fid].filename, files[fid].size,
                                      get_username(loc[c].uid), loc[c].uid,
                                      g.port)]
               /\ FReleaseAcquire(c, "fr_session")
    /\ UNCHANGED <<next_uid, clients, participants, chat_history, lockHolder,
                   lockWaiters, recv, rlog, closed, broken, issued, nlines>>
    /\ UNCHANGED <<files, upload_sessions, download_sessions, listeners, fs,
                   inodes, uploaded>>
    /\ UNCHANGED nonFileVars

\* self.download_sessions[download_port] = session_info; then
\* await asyncio.start_server(accept_download, host, download_port).
handle_file_request_listen(c) ==
    /\ running = c
    /\ pc[c] = "fr_session"
    /\ flockHolder = c
    /\ download_sessions' = DictSet(download_sessions, loc[c].sess.port, loc[c].sess)
    /\ listeners' = DictSet(listeners, loc[c].sess.port,
                            [kind |-> "download", sess |-> loc[c].sess])
    /\ FUnlock
    /\ SuspendIO(c, "fr_started")
    /\ UNCHANGED <<next_uid, clients, participants, chat_history, lockHolder,
                   lockWaiters, loc, recv, rlog, closed, broken, issued, nlines>>
    /\ UNCHANGED <<files, upload_sessions, next_ephemeral_port, fs, inodes,
                   uploaded>>
    /\ UNCHANGED nonFileVars

\* _send_message(uid, create_file_download_port_message(fid, filename, size,
\* download_port))
handle_file_request_reply(c) ==
    /\ running = c
    /\ pc[c] = "fr_started"
    /\ loc' = [loc EXCEPT ![c].to = loc[c].uid,
                          ![c].out = FileOut("file_download_port", loc[c].sess.fid,
                                             loc[c].sess.filename, loc[c].sess.size,
                                             "", loc[c].sess.port),
                          ![c].ret = "fr_cleanup"]
    /\ FAcquire(c, "fsm_locked")
    /\ UNCHANGED <<next_uid, clients, participants, chat_history, lockHolder,
                   lockWaiters, recv, rlog, closed, broken, issued, nlines>>
    /\ UNCHANGED <<files, upload_sessions, download_sessions,
                   next_ephemeral_port, listeners, fs, inodes, uploaded>>
    /\ UNCHANGED nonFileVars

(***************************************************************************)
(* cleanup_server, the task both handlers make for their listener.         *)
(***************************************************************************)
\* asyncio.create_task(cleanup_server()); the handler returns.
create_cleanup_server(c) ==
    /\ running = c
    /\ pc[c] \in {"fo_cleanup", "fr_cleanup"}
    /\ LET k == CleanupTask(loc[c].sess.port) IN
       /\ pc' = [pc EXCEPT ![c] = "ret_loop", ![k] = "cs_sleep"]
       /\ wait' = [wait EXCEPT ![k] = "sleep"]
       /\ loc' = [loc EXCEPT ![k].sess = loc[c].sess,
                             ![k].tname = IF pc[c] = "fo_cleanup" THEN "upload"
                                          ELSE "download"]
    /\ UNCHANGED <<next_uid, clients, participants, chat_history, lockHolder,
                   lockWaiters, running, recv, rlog, closed, broken, issued, nlines>>
    /\ UNCHANGED fileVars
    /\ UNCHANGED nonFileVars

\* TRANSFER_TIMEOUT has passed: server.close(); wait_closed() of a closed
\* server returns at once; then `async with self.lock`.
cleanup_server_close(k) ==
    /\ running = NoConn
    /\ pc[k] = "cs_sleep"
    /\ listeners' = DictDel(listeners, loc[k].sess.port)
    /\ pc' = [pc EXCEPT ![k] = "cs_del"]
    /\ IF flockHolder = NoConn /\ flockWaiters = <<>>
       THEN /\ flockHolder' = k
            /\ running' = k
            /\ wait' = [wait EXCEPT ![k] = "none"]
            /\ UNCHANGED flockWaiters
       ELSE /\ flockWaiters' = Append(flockWaiters, k)
            /\ wait' = [wait EXCEPT ![k] = "flock"]
            /\ UNCHANGED <<flockHolder, running>>
    /\ UNCHANGED <<next_uid, clients, participants, chat_history, lockHolder,
                   lockWaiters, loc, recv, rlog, closed, broken, issued, nlines>>
    /\ UNCHANGED <<files, upload_sessions, download_sessions,
                   next_ephemeral_port, fs, inodes, uploaded>>
    /\ UNCHANGED nonFileVars

\* if port in sessions: del sessions[port]; the task ends.
cleanup_server_del(k) ==
    /\ running = k
    /\ pc[k] = "cs_del"
    /\ flockHolder = k
    /\ LET p == loc[k].sess.port IN
       /\ upload_sessions' = IF loc[k].tname = "upload" /\ p \in DOMAIN upload_sessions
                             THEN DictDel(upload_sessions, p) ELSE upload_sessions
       /\ download_sessions' = IF loc[k].tname = "download" /\ p \in DOMAIN download_sessions
                               THEN DictDel(download_sessions, p) ELSE download_sessions
    /\ FUnlock
    /\ pc' = [pc EXCEPT ![k] = "done"]
    /\ wait' = [wait EXCEPT ![k] = "done"]
    /\ running' = NoConn
    /\ UNCHANGED <<next_uid, clients, participants, chat_history, lockHolder,
                   lockWaiters, loc, recv, rlog, closed, broken, issued, nlines>>
    /\ UNCHANGED <<files, next_ephemeral_port, listeners, fs, inodes, uploaded>>
    /\ UNCHANGED nonFileVars

(***************************************************************************)
(* Connections to ephemeral ports.                                         *)
(***************************************************************************)
\* The transfer connections made so far.
Accepted == {t \in XferTasks : pc[t] # "idle"}

\* A connection arrives on a port that has a listener: the listener's
\* callback (accept_upload or accept_download) is started as a new task.
transfer_accept(p) ==
    /\ running = NoConn
    /\ p \in DOMAIN listeners
    /\ Cardinality(Accepted) < MaxXfer
    /\ LET t == LastConn + Cardinality(Accepted) + 1 IN
       /\ pc' = [pc EXCEPT ![t] = IF listeners[p].kind = "upload"
                                  THEN "fu_open" ELSE "fd_start"]
       /\ wait' = [wait EXCEPT ![t] = "io"]
       /\ loc' = [loc EXCEPT ![t].sess = listeners[p].sess]
    /\ UNCHANGED <<next_uid, clients, participants, chat_history, lockHolder,
                   lockWaiters, running, recv, rlog, closed, broken, issued, nlines>>
    /\ UNCHANGED fileVars
    /\ UNCHANGED nonFileVars

(***************************************************************************)
(* FileServer.handle_file_upload                                           *)
(***************************************************************************)
\* file_path = self.upload_dir / filename; open(file_path, 'wb'); the first
\* await reader.read(chunk_size).
handle_file_upload(t) ==
    /\ running = t
    /\ pc[t] = "fu_open"
    /\ LET path == PathJoin(upload_dir, loc[t].sess.filename)
           new == Len(inodes) + 1
       IN /\ IF Exists(path)
             THEN /\ inodes' = [inodes EXCEPT ![fs[FsKey(path)]] = <<>>]
                  /\ UNCHANGED fs
                  /\ loc' = [loc EXCEPT ![t].path = path,
                                        ![t].ino = fs[FsKey(path)],
                                        ![t].buf = <<>>, ![t].got = 0]
             ELSE /\ inodes' = Append(inodes, <<>>)
                  /\ fs' = DictSet(fs, FsKey(path), new)
                  /\ loc' = [loc EXCEPT ![t].path = path, ![t].ino = new,
                                        ![t].buf = <<>>, ![t].got = 0]
    /\ SuspendIO(t, "fu_read")
    /\ UNCHANGED <<next_uid, clients, participants, chat_history, lockHolder,
                   lockWaiters, recv, rlog, closed, broken, issued, nlines>>
    /\ UNCHANGED <<files, upload_sessions, download_sessions,
                   next_ephemeral_port, flockHolder, flockWaiters, listeners,
                   uploaded>>
    /\ UNCHANGED nonFileVars

\* reader.read returned n bytes (none is b'': the peer closed the
\* connection).
handle_file_upload_read(t, n) ==
    /\ running = t
    /\ pc[t] = "fu_read"
    /\ n <= Min(CHUNK_SIZE, loc[t].sess.size - loc[t].got)
    /\ LET data == Payload(t, n) IN
       IF n = 0
       THEN \* break; the upload is incomplete: unlink; finally: close
            /\ inodes' = Flush(loc[t].ino, loc[t].buf)
            /\ fs' = Unlink(loc[t].path)
            /\ SuspendIO(t, "fu_session")
            /\ UNCHANGED <<loc, flockHolder, flockWaiters>>
       ELSE IF loc[t].got + Len(data) < loc[t].sess.size
       THEN \* f.write(data); read again
            /\ loc' = [loc EXCEPT ![t].buf = @ \o data,
                                  ![t].got = @ + Len(data)]
            /\ SuspendIO(t, "fu_read")
            /\ UNCHANGED <<inodes, fs, flockHolder, flockWaiters>>
       ELSE \* f.write(data); the loop and the `with` end; all bytes came
            /\ loc' = [loc EXCEPT ![t].buf = @ \o data,
                                  ![t].got = @ + Len(data)]
            /\ inodes' = Flush(loc[t].ino, loc[t].buf \o data)
            /\ FAcquire(t, "fu_register")
            /\ UNCHANGED fs
    /\ UNCHANGED <<next_uid, clients, participants, chat_history, lockHolder,
                   lockWaiters, recv, rlog, closed, broken, issued, nlines>>
    /\ UNCHANGED <<files, upload_sessions, download_sessions,
                   next_ephemeral_port, listeners, uploaded>>
    /\ UNCHANGED nonFileVars

\* self.files[fid] = file_metadata; then
\* await self.broadcast_callback(create_file_available_message(...)).
handle_file_upload_register(t) ==
    /\ running = t
    /\ pc[t] = "fu_register"
    /\ flockHolder = t
    /\ LET s == loc[t].sess IN
       /\ files' = DictSet(files, s.fid,
                           Metadata(s.fid, s.filename, loc[t].got, s.user,
                                    s.uid, loc[t].path))
       /\ uploaded' = DictSet(uploaded, s.fid, loc[t].buf)
       /\ loc' = [loc EXCEPT ![t].out = FileOut("file_available", s.fid,
                                                s.filename, loc[t].got,
                                                s.user, 0),
                             ![t].excl = 0,
                             ![t].ret = "fu_close"]
    /\ FUnlock
    /\ Acquire(t, "bc_locked")
    /\ UNCHANGED <<next_uid, clients, participants, chat_history, recv, rlog,
                   closed, broken, issued, nlines>>
    /\ UNCHANGED <<upload_sessions, download_sessions, next_ephemeral_port,
                   listeners, fs, inodes>>
    /\ UNCHANGED nonFileVars

\* except Exception: unlink the file; finally: writer.close();
\* await writer.wait_closed().
handle_file_upload_finally(t) ==
    /\ running = t
    /\ pc[t] \in {"fu_close", "fu_except"}
    /\ fs' = IF pc[t] = "fu_except" THEN Unlink(loc[t].path) ELSE fs
    /\ SuspendIO(t, "fu_session")
    /\ UNCHANGED <<next_uid, clients, participants, chat_history, lockHolder,
                   lockWaiters, loc, recv, rlog, closed, broken, issued, nlines>>
    /\ UNCHANGED <<files, upload_sessions, download_sessions,
                   next_ephemeral_port, flockHolder, flockWaiters, listeners,
                   inodes, uploaded>>
    /\ UNCHANGED nonFileVars

(***************************************************************************)
(* FileServer.handle_file_download                                         *)
(***************************************************************************)
handle_file_download(t) ==
    /\ running = t
    /\ pc[t] = "fd_start"
    /\ FAcquire(t, "fd_lookup")
    /\ UNCHANGED <<next_uid, clients, participants, chat_history, lockHolder,
                   lockWaiters, loc, recv, rlog, closed, broken, issued, nlines>>
    /\ UNCHANGED <<files, upload_sessions, download_sessions,
                   next_ephemeral_port, listeners, fs, inodes, uploaded>>
    /\ UNCHANGED nonFileVars

\* file_info = self.files.get(fid); no record or no file: close; else
\* open(file_path, 'rb').
handle_file_download_open(t) ==
    /\ running = t
    /\ pc[t] = "fd_lookup"
    /\ flockHolder = t
    /\ FUnlock
    /\ LET fid == loc[t].sess.fid IN
       IF fid \notin DOMAIN files \/ ~Exists(files[fid].path)
       THEN /\ SuspendIO(t, "fd_session")
            /\ UNCHANGED loc
       ELSE /\ loc' = [loc EXCEPT ![t].path = files[fid].path,
                                  ![t].ino = fs[FsKey(files[fid].path)],
                                  ![t].got = 0]
            /\ pc' = [pc EXCEPT ![t] = "fd_loop"]
            /\ UNCHANGED <<wait, running>>
    /\ UNCHANGED <<next_uid, clients, participants, chat_history, lockHolder,
                   lockWaiters, recv, rlog, closed, broken, issued, nlines>>
    /\ UNCHANGED <<files, upload_sessions, download_sessions,
                   next_ephemeral_port, listeners, fs, inodes, uploaded>>
    /\ UNCHANGED nonFileVars

\* data = f.read(CHUNK_SIZE); b'': the transfer is complete; else
\* writer.write(data); await writer.drain().
handle_file_download_loop(t) ==
    /\ running = t
    /\ pc[t] = "fd_loop"
    /\ LET content == inodes[loc[t].ino]
           data == SubSeq(content, loc[t].got + 1,
                          Min(loc[t].got + CHUNK_SIZE, Len(content)))
       IN IF data = <<>>
          THEN /\ loc' = [loc EXCEPT ![t].complete = TRUE]
               /\ SuspendIO(t, "fd_session")
          ELSE /\ loc' = [loc EXCEPT ![t].stream = @ \o data,
                                     ![t].got = @ + Len(data)]
               /\ SuspendIO(t, "fd_loop")
    /\ UNCHANGED <<next_uid, clients, participants, chat_history, lockHolder,
                   lockWaiters, recv, rlog, closed, broken, issued, nlines>>
    /\ UNCHANGED fileVars
    /\ UNCHANGED nonFileVars

(***************************************************************************)
(* accept_upload and accept_download, after the transfer.                  *)
(***************************************************************************)
accept_session_cleanup(t) ==
    /\ running = t
    /\ pc[t] \in {"fu_session", "fd_session"}
    /\ FAcquire(t, IF pc[t] = "fu_session" THEN "fu_session_del"
                   ELSE "fd_session_del")
    /\ UNCHANGED <<next_uid, clients, participants, chat_history, lockHolder,
                   lockWaiters, loc, recv, rlog, closed, broken, issued, nlines>>
    /\ UNCHANGED <<files, upload_sessions, download_sessions,
                   next_ephemeral_port, listeners, fs, inodes, uploaded>>
    /\ UNCHANGED nonFileVars

\* if port in sessions: del sessions[port]; the task ends.
accept_session_del(t) ==
    /\ running = t
    /\ pc[t] \in {"fu_session_del", "fd_session_del"}
    /\ flockHolder = t
    /\ LET p == loc[t].sess.port IN
       /\ upload_sessions' = IF pc[t] = "fu_session_del" /\ p \in DOMAIN upload_sessions
                             THEN DictDel(upload_sessions, p) ELSE upload_sessions
       /\ download_sessions' = IF pc[t] = "fd_session_del" /\ p \in DOMAIN download_sessions
                               THEN DictDel(download_sessions, p) ELSE download_sessions
    /\ FUnlock
    /\ pc' = [pc EXCEPT ![t] = "done"]
    /\ wait' = [wait EXCEPT ![t] = "done"]
    /\ running' = NoConn
    /\ loc' = [loc EXCEPT ![t] = [L0 EXCEPT !.sess = loc[t].sess]]
    /\ UNCHANGED <<next_uid, clients, participants, chat_history, lockHolder,
                   lockWaiters, recv, rlog, closed, broken, issued, nlines>>
    /\ UNCHANGED <<files, next_ephemeral_port, listeners, fs, inodes, uploaded>>
    /\ UNCHANGED nonFileVars

(***************************************************************************)
(* The transfer broker's specifications.                                   *)
(***************************************************************************)
InitFile ==
    /\ files = <<>>
    /\ upload_sessions = <<>>
    /\ download_sessions = <<>>
    /\ next_ephemeral_port = EPHEMERAL_START
    /\ flockHolder = NoConn
    /\ flockWaiters = <<>>
    /\ listeners = <<>>
    /\ fs = <<>>
    /\ inodes = <<>>
    /\ uploaded = <<>>

Ports == EPHEMERAL_START..(EPHEMERAL_START + MaxSeqLines - 1)

OfferLines == {l \in FileLines : l.kind = "file_offer"}

\* Uploads under every interleaving: at most MaxFileConn control
\* connections, MaxFileLines offers, and MaxFileXfer connections to the
\* upload ports.
NextFile ==
    \/ handle_client_accept /\ Len(issued) < MaxFileConn
    \/ \E c \in Conns, m \in OfferLines : ReadLineUpTo(c, m, MaxFileLines)
    \/ \E c \in Conns : HandlerReturn(c)
    \/ \E c \in Tasks : Resume(c)
    \/ \E c \in Tasks : broadcast_iter(c)
    \/ \E c \in Tasks : broadcast_next(c)
    \/ \E c \in Conns : file_send_message(c)
    \/ \E c \in Conns : file_send_message_done(c)
    \/ \E c \in Conns : handle_file_offer(c)
    \/ \E c \in Conns : handle_file_offer_listen(c)
    \/ \E c \in Conns : handle_file_offer_reply(c)
    \/ \E c \in Conns : create_cleanup_server(c)
    \/ \E k \in CleanupTasks : cleanup_server_close(k)
    \/ \E k \in CleanupTasks : cleanup_server_del(k)
    \/ \E p \in Ports : transfer_accept(p) /\ Cardinality(Accepted) < MaxFileXfer
    \/ \E t \in XferTasks : handle_file_upload(t)
    \/ \E t \in XferTasks, n \in 0..MaxSize : handle_file_upload_read(t, n)
    \/ \E t \in XferTasks : handle_file_upload_register(t)
    \/ \E t \in XferTasks : handle_file_upload_finally(t)
    \/ \E t \in XferTasks : accept_session_cleanup(t)
    \/ \E t \in XferTasks : accept_session_del(t)

\* Every task rests: no handler and no transfer is in progress.
AtRest ==
    /\ running = NoConn
    /\ \A t \in Tasks : pc[t] \in {"idle", "readline", "done", "cs_sleep"}

\* The offers and requests that name files by a plain name.
PlainLines == {l \in FileLines : Len(l.filename) <= 1}

\* Offers, requests, uploads and downloads of one client, one after the
\* other and within TRANSFER_TIMEOUT of the first: a connection or a line
\* comes only when every task rests, and no cleanup_server wakes up.
NextFileSeq ==
    \/ AtRest /\ handle_client_accept /\ Len(issued) < MaxSeqConn
    \/ AtRest /\ \E c \in Conns, m \in PlainLines : ReadLineUpTo(c, m, MaxSeqLines)
    \/ AtRest /\ \E p \in Ports : transfer_accept(p)
    \/ \E c \in Conns : HandlerReturn(c)
    \/ \E c \in Tasks : Resume(c)
    \/ \E c \in Tasks : broadcast_iter(c)
    \/ \E c \in Tasks : broadcast_next(c)
    \/ \E c \in Conns : file_send_message(c)
    \/ \E c \in Conns : file_send_message_done(c)
    \/ \E c \in Conns : handle_file_offer(c)
    \/ \E c \in Conns : handle_file_offer_listen(c)
    \/ \E c \in Conns : handle_file_offer_reply(c)
    \/ \E c \in Conns : handle_file_request(c)
    \/ \E c \in Conns : handle_file_request_lookup(c)
    \/ \E c \in Conns : handle_file_request_listen(c)
    \/ \E c \in Conns : handle_file_request_reply(c)
    \/ \E c \in Conns : create_cleanup_server(c)
    \/ \E t \in XferTasks : handle_file_upload(t)
    \/ \E t \in XferTasks, n \in 0..MaxSize : handle_file_upload_read(t, n)
    \/ \E t \in XferTasks : handle_file_upload_register(t)
    \/ \E t \in XferTasks : handle_file_upload_finally(t)
    \/ \E t \in XferTasks : handle_file_download(t)
    \/ \E t \in XferTasks : handle_file_download_open(t)
    \/ \E t \in XferTasks : handle_file_download_loop(t)
    \/ \E t \in XferTasks : accept_session_cleanup(t)
    \/ \E t \in XferTasks : accept_session_del(t)

(***************************************************************************)
(* The audio path (server/audio/audio_server.py).  handle_packet has no    *)
(* await in it and the eviction runs on the same event loop, so each is    *)
(* one step; the mixing thread meets them only at mix_queue_lock.          *)
(***************************************************************************)
\* (a + n) & 0xFFFFFFFF, for 0 <= n < 2^16
Add32(a, n) ==
    <<(a[1] + ((a[2] + n) \div Limb)) % Limb, (a[2] + n) % Limb>>

\* (a - b) & 0xFFFFFFFF
Sub32(a, b) ==
    <<(a[1] - b[1] - (IF a[2] < b[2] THEN 1 ELSE 0)) % Limb,
      (a[2] - b[2]) % Limb>>

\* The value of a, which is at most 0x7FFFFFFF.
Int32(a) == a[1] * Limb + a[2]

\* a <= n, for 0 <= n <= 0x7FFFFFFF
Leq32(a, n) ==
    \/ a[1] < n \div Limb
    \/ a[1] = n \div Limb /\ a[2] <= n % Limb

\* The datagrams of the model: one shorter than the 16-byte header, and for
\* every header one whose payload the decoder accepts and one it rejects.
Datagrams ==
    {[short |-> TRUE, uid |-> 0, seq |-> <<0, 0>>, timestamp |-> 0, decodable |-> FALSE]}
    \cup [short : {FALSE}, uid : AudioUids, seq : SeqVals,
          timestamp : Timestamps, decodable : BOOLEAN]

\* ClientInfo(uid, addr) as handle_packet leaves a new client.
ClientInfo(seq) ==
    [expected_sequence |-> Add32(seq, 1), received_packets |-> 1,
     dropped_packets |-> 0]

\* The sequence check of handle_packet: the verdict on seq and the client
\* record it leaves.
SequenceCheck(client, seq) ==
    LET diff == Sub32(seq, client.expected_sequence) IN
    IF diff = <<0, 0>> THEN [verdict |-> "duplicate", client |-> client]
    ELSE IF diff = <<0, 1>>
    THEN [verdict |-> "in_order",
          client |-> [client EXCEPT !.expected_sequence = Add32(seq, 1),
                                    !.received_packets = @ + 1]]
    ELSE IF Leq32(diff, HALF32)
    THEN [verdict |-> "gap",
          client |-> [client EXCEPT !.dropped_packets = @ + (Int32(diff) - 1),
                                    !.expected_sequence = Add32(seq, 1),
                                    !.received_packets = @ + 1]]
    ELSE [verdict |-> "backward",
          client |-> [client EXCEPT !.dropped_packets = @ + 1]]

\* AudioServer._is_packet_late with a threshold: the answer, and the table
\* of stored timestamps it leaves.
IsPacketLate(uid, timestamp, threshold) ==
    IF uid \in DOMAIN last_timestamp_by_client
    THEN LET time_diff == timestamp - last_timestamp_by_client[uid] IN
         IF time_diff < -threshold
         THEN [late |-> TRUE, table |-> last_timestamp_by_client]
         ELSE IF time_diff >= 0
         THEN [late |-> FALSE,
               table |-> [last_timestamp_by_client EXCEPT ![uid] = timestamp]]
         ELSE [late |-> FALSE, table |-> last_timestamp_by_client]
    ELSE [late |-> FALSE,
          table |-> DictSet(last_timestamp_by_client, uid, timestamp)]

is_packet_late(uid, timestamp) == IsPacketLate(uid, timestamp, MAX_LATE_MS)

\* What the model remembers of a sender: the seq of its last datagram, whether
\* each datagram so far had a seq ahead of the one before, how many came,
\* how many sequence numbers they skipped, and how many of them were dropped
\* after the sequence check (late or undecodable).
Sender0 == [prev |-> <<>>, increasing |-> TRUE, sent |-> 0, skipped |-> 0,
            late |-> 0, evicted |-> FALSE]

\* seq is ahead of prev: by 1 up to 0x7FFFFFFF, modulo 2^32.
Ahead(prev, seq) ==
    Sub32(seq, prev) # <<0, 0>> /\ Leq32(Sub32(seq, prev), HALF32)

NoPacket == [uid |-> 0, seq |-> <<0, 0>>, timestamp |-> 0, verdict |-> "none",
             dropped_by |-> 0, stored_before |-> -1, stored_after |-> -1,
             ahead |-> FALSE, known |-> FALSE, diff |-> <<0, 0>>,
             expected_after |-> <<0, 0>>]

\* The decoded frame of a datagram, named by the datagram's seq and by its
\* place n among the datagrams received.
Frame(seq, n) == [seq |-> seq, n |-> n]

\* AudioServer.handle_packet
handle_packet(d) ==
    /\ npackets < MaxPackets
    /\ npackets' = npackets + 1
    /\ IF d.short
       THEN \* len(data) < 16: return
            /\ last' = [NoPacket EXCEPT !.verdict = "short"]
            /\ UNCHANGED <<aclients, decoders, last_timestamp_by_client,
                           mix_queue, sender, enqueued>>
       ELSE
       LET uid == d.uid
           known == uid \in DOMAIN aclients
           chk == IF known THEN SequenceCheck(aclients[uid], d.seq)
                  ELSE [verdict |-> "new", client |-> ClientInfo(d.seq)]
           passed == chk.verdict \in {"in_order", "gap", "new"}
           lt == is_packet_late(uid, d.timestamp)
           late == passed /\ lt.late
           queued == passed /\ ~lt.late /\ d.decodable
           client == IF late
                     THEN [chk.client EXCEPT !.dropped_packets = @ + 1]
                     ELSE chk.client
           verdict == IF ~passed THEN chk.verdict
                      ELSE IF late THEN "late"
                      ELSE IF ~d.decodable THEN "undecodable"
                      ELSE "queued"
           before == IF known THEN aclients[uid].dropped_packets ELSE 0
           stored == IF uid \in DOMAIN last_timestamp_by_client
                     THEN last_timestamp_by_client[uid] ELSE -1
           s == sender[uid]
           ahead == s.prev # <<>> /\ Ahead(s.prev, d.seq)
       IN /\ aclients' = DictSet(aclients, uid, client)
          /\ last_timestamp_by_client' =
                 IF passed THEN lt.table ELSE last_timestamp_by_client
          /\ decoders' = IF passed /\ ~lt.late THEN decoders \cup {uid}
                         ELSE decoders
          /\ mix_queue' = IF queued
                          THEN Append(mix_queue,
                                      <<uid, Frame(d.seq, npackets + 1),
                                        d.timestamp>>)
                          ELSE mix_queue
          /\ enqueued' = IF queued THEN enqueued \cup {npackets + 1}
                         ELSE enqueued
          /\ last' = [uid |-> uid, seq |-> d.seq, timestamp |-> d.timestamp,
                      verdict |-> verdict,
                      dropped_by |-> client.dropped_packets - before,
                      stored_before |-> stored,
                      stored_after |-> last_timestamp_by_client'[uid],
                      ahead |-> ahead /\ s.increasing,
                      known |-> known,
                      diff |-> IF known
                               THEN Sub32(d.seq, aclients[uid].expected_sequence)
                               ELSE <<0, 0>>,
                      expected_after |-> client.expected_sequence]
          /\ sender' = [sender EXCEPT ![uid] =
                 [prev |-> d.seq,
                  increasing |-> s.increasing /\ (s.prev = <<>> \/ ahead),
                  sent |-> s.sent + 1,
                  skipped |-> IF ahead
                              THEN s.skipped + Int32(Sub32(d.seq, s.prev)) - 1
                              ELSE s.skipped,
                  late |-> IF passed /\ lt.late THEN s.late + 1 ELSE s.late,
                  evicted |-> s.evicted]]
    /\ UNCHANGED <<nonAudioVars, mixVars>>

\* A mixing thread that takes one frame a tick.
DrainOne(q) ==
    IF q = <<>> THEN [frames |-> <<>>, rest |-> <<>>]
    ELSE [frames |-> <<Head(q)>>, rest |-> Tail(q)]

\* The while loop of the mixing thread under mix_queue_lock: popleft until
\* the queue is empty.
Drain(q) == [frames |-> q, rest |-> <<>>]

\* The datagrams whose frames are in a sequence of queue entries.
FrameIds(q) == [i \in 1..Len(q) |-> q[i][2].n]

NoTick == [kind |-> "none", frames |-> <<>>, left |-> 0, clients |-> {},
           to |-> {}]

\* The start of a tick of AudioServer._mixing_thread_worker: under
\* mix_queue_lock the queue is drained into frames_to_mix.
mixing_thread_worker ==
    /\ mixpc = "sleep"
    /\ mixpc' = "drained"
    /\ frames_to_mix' = Drain(mix_queue).frames
    /\ mix_queue' = Drain(mix_queue).rest
    /\ tick' = [NoTick EXCEPT !.left = Len(mix_queue')]
    /\ UNCHANGED <<aclients, decoders, last_timestamp_by_client, last, sender,
                   npackets, enqueued, mixed>>
    /\ UNCHANGED nonAudioVars

\* The rest of the tick: the frames are summed (silence when there is
\* none), the sum is encoded once and, under client_lock, sent to the
\* address of every client in the table.  The decoder's frames have
\* SAMPLES_PER_FRAME samples and the encoder accepts the sum.
mixing_thread_broadcast ==
    /\ mixpc = "drained"
    /\ mixpc' = "sleep"
    /\ tick' = [tick EXCEPT
                   !.kind = IF Len(frames_to_mix) = 0 THEN "silence" ELSE "mix",
                   !.frames = FrameIds(frames_to_mix),
                   !.clients = DOMAIN aclients,
                   !.to = {u \in DOMAIN aclients : TRUE}]
    /\ mixed' = mixed \o FrameIds(frames_to_mix)
    /\ frames_to_mix' = <<>>
    /\ UNCHANGED <<aclients, decoders, last_timestamp_by_client, mix_queue,
                   last, sender, npackets, enqueued>>
    /\ UNCHANGED nonAudioVars

\* AudioServer._cleanup_timeout_clients: the clients in S have been silent
\* for CLIENT_TIMEOUT.
cleanup_timeout_clients(S) ==
    /\ S # {}
    /\ S \subseteq DOMAIN aclients
    /\ aclients' = [u \in (DOMAIN aclients) \ S |-> aclients[u]]
    /\ decoders' = decoders \ S
    /\ sender' = [u \in AudioUids |->
                     IF u \in S THEN [sender[u] EXCEPT !.evicted = TRUE]
                     ELSE sender[u]]
    /\ UNCHANGED <<last_timestamp_by_client, mix_queue, last, npackets,
                   enqueued>>
    /\ UNCHANGED <<nonAudioVars, mixVars>>

InitAudio ==
    /\ aclients = <<>>
    /\ decoders = {}
    /\ last_timestamp_by_client = <<>>
    /\ mix_queue = <<>>
    /\ last = NoPacket
    /\ sender = [u \in AudioUids |-> Sender0]
    /\ npackets = 0
    /\ enqueued = {}
    /\ mixpc = "sleep"
    /\ frames_to_mix = <<>>
    /\ tick = NoTick
    /\ mixed = <<>>

\* The event loop of the audio server: the receive path and the eviction.
NextAudio ==
    \/ \E d \in Datagrams : handle_packet(d)
    \/ \E S \in SUBSET AudioUids : cleanup_timeout_clients(S)

\* Datagrams on time whose seqs are up to 2^31 + 1 apart.
GapDatagrams ==
    [short : {FALSE}, uid : AudioUids,
     seq : {<<0, 0>>, <<0, 1>>, <<0, 2>>, <<Limb \div 2, 1>>},
     timestamp : {0}, decodable : {TRUE}]

\* Senders whose seqs jump by about 2^31; a sender that has made such a
\* jump sends no more.
NextGap ==
    \/ \E d \in GapDatagrams :
          /\ d.uid \in DOMAIN aclients
                => aclients[d.uid].dropped_packets < MaxGapped
          /\ sender[d.uid].skipped < MaxGapped
          /\ handle_packet(d)
    \/ \E S \in SUBSET AudioUids : cleanup_timeout_clients(S)

\* The datagrams of the mixer's specification: on time, one seq apart.
MixDatagrams ==
    {d \in Datagrams : ~d.short /\ d.timestamp = 0 /\ d.seq[1] = 0}

\* The event loop together with the mixing thread, step by step.
NextMix ==
    \/ \E d \in MixDatagrams : handle_packet(d)
    \/ mixing_thread_worker
    \/ mixing_thread_broadcast
    \/ \E S \in SUBSET AudioUids : cleanup_timeout_clients(S)

(***************************************************************************)
(* The video path (server/video/video_server.py).  handle_packet has no    *)
(* await in it, the cleanup task runs its two sweeps without one, and the  *)
(* broadcast worker yields only in sock_sendto: each is a step of the one  *)
(* event loop.                                                             *)
(***************************************************************************)
\* The frames the senders split into chunks: per (uid, frame_id) the payload
\* lengths of the chunks, in chunk-idx order, as VideoClient._send_frame cuts
\* them (every chunk full but the last).
\* VideoClient._send_frame: the payload lengths of the chunks it cuts a
\* frame of frame_size bytes into.
send_frame(frame_size) ==
    LET max_chunk_payload == MTU_SIZE - CHUNK_HEADER_SIZE
        num_chunks == (frame_size + max_chunk_payload - 1) \div max_chunk_payload
    IN [chunk_idx \in 1..num_chunks |->
           Min(chunk_idx * max_chunk_payload, frame_size)
             - (chunk_idx - 1) * max_chunk_payload]

\* The lengths of the frames ClientUid sends, the n-th as its frame n: one
\* byte, one and two full chunks, and each of these with one byte more.
FrameSizes ==
    <<1, MTU_SIZE - CHUNK_HEADER_SIZE, MTU_SIZE - CHUNK_HEADER_SIZE + 1,
      2 * (MTU_SIZE - CHUNK_HEADER_SIZE), 2 * (MTU_SIZE - CHUNK_HEADER_SIZE) + 1>>

VideoFrames ==
    (<<1, 1>> :> <<1, 1>>) @@ (<<1, 2>> :> <<2, 1>>) @@ (<<2, 1>> :> <<1>>)
    @@ [k \in {ClientUid} \X (1..Len(FrameSizes)) |-> send_frame(FrameSizes[k[2]])]

FrameKeys == DOMAIN VideoFrames

\* The host a client sends from, and the ports it may bind to receive.
VideoHost(uid) == uid

VideoPorts(uid) == IF uid = 2 THEN {6002, 6012} ELSE {6000 + uid}

\* The viewer who sends no chunks.
ViewerUid == 3

\* The bytes of a chunk: len bytes that only chunk tag of the senders holds.
ChunkPayload(uid, frame_id, idx, len) ==
    [tag |-> <<uid, frame_id, idx>>, len |-> len]

VideoDatagram(kind, length, uid, frame_id, idx, total, size, port, payload) ==
    [kind |-> kind, length |-> length, uid |-> uid, frame_id |-> frame_id,
     chunk_idx |-> idx, total_chunks |-> total,
     timestamp |-> idx, chunk_size |-> size,
     receive_port |-> port, payload |-> payload,
     host |-> VideoHost(uid)]

\* The datagram VideoClient._send_frame makes for chunk idx of a frame.
ChunkDatagram(key, idx, port) ==
    LET len == VideoFrames[key][idx + 1] IN
    VideoDatagram("chunk", CHUNK_HEADER_SIZE + len, key[1], key[2], idx,
                  Len(VideoFrames[key]), len, port,
                  ChunkPayload(key[1], key[2], idx, len))

\* The datagram VideoClient._register_receive_port makes.
RegisterDatagram(uid, port) ==
    VideoDatagram("register", REGISTER_SIZE, uid, 0, 0, 0, 0, port,
                  ChunkPayload(uid, 0, 0, 0))

\* Datagrams the header validation or the slot's parameters turn down: one
\* cut short, one whose payload is not chunk_size long, one with too many
\* chunks, one with chunk_idx = total_chunks, and one that disagrees with
\* frame (1, 1) on total_chunks.
OddDatagrams ==
    {VideoDatagram("chunk", CHUNK_HEADER_SIZE - 1, 1, 1, 0, 2, 1, 6001,
                   ChunkPayload(1, 1, 0, 0)),
     VideoDatagram("chunk", CHUNK_HEADER_SIZE + 1, 1, 1, 0, 2, 2, 6001,
                   ChunkPayload(1, 1, 0, 1)),
     VideoDatagram("chunk", CHUNK_HEADER_SIZE + 1, 1, 1, 0, MAX_CHUNKS + 1, 1,
                   6001, ChunkPayload(1, 1, 0, 1)),
     VideoDatagram("chunk", CHUNK_HEADER_SIZE + 1, 1, 1, 2, 2, 1, 6001,
                   ChunkPayload(1, 1, 2, 1)),
     VideoDatagram("chunk", CHUNK_HEADER_SIZE + 1, 1, 1, 2, 3, 1, 6001,
                   ChunkPayload(1, 1, 2, 1))}

\* A datagram that is a header and nothing else: chunk_size 0, no payload,
\* the one chunk of frame 3 of uid 1.
EmptyDatagrams ==
    {VideoDatagram("chunk", CHUNK_HEADER_SIZE, 1, 3, 0, 1, 0, 6001,
                   ChunkPayload(1, 3, 0, 0))}

VideoDatagrams ==
    {ChunkDatagram(k, i, p) :
        <<k, i, p>> \in {<<k, i, p>> \in FrameKeys \X (0..1) \X {6001, 6002, 6012} :
                            i < Len(VideoFrames[k]) /\ p \in VideoPorts(k[1])}}
    \cup {RegisterDatagram(ViewerUid, p) : p \in VideoPorts(ViewerUid)}
    \cup OddDatagrams
    \cup EmptyDatagrams

\* VideoServer._parse_chunk_header: is the header valid?
parse_chunk_header(d) ==
    /\ d.length >= CHUNK_HEADER_SIZE
    /\ d.length - CHUNK_HEADER_SIZE = d.chunk_size
    /\ ~(d.total_chunks <= 0 \/ d.total_chunks > MAX_CHUNKS)
    /\ ~(d.chunk_idx < 0 \/ d.chunk_idx >= d.total_chunks)
    /\ ~(d.chunk_size < 0 \/ d.chunk_size > MAX_CHUNK_SIZE)

\* A place of a slot's chunk_list that holds None.
NoChunk == [data |-> ChunkPayload(0, 0, 0, 0), timestamp |-> -1]

\* (chunk_list, total_chunks, chunk_size, remaining) and when it was made.
Slot(d, born) ==
    [chunks |-> [i \in 1..d.total_chunks |-> NoChunk],
     total |-> d.total_chunks, chunk_size |-> d.chunk_size,
     remaining |-> d.total_chunks, born |-> born]

\* The slots of a uid; none when chunk_buffers has no entry for it.
SlotsOf(buffers, uid) == IF uid \in DOMAIN buffers THEN buffers[uid] ELSE <<>>

\* b''.join(c.data for c in chunk_list)
JoinChunks(chunks) == [i \in 1..Len(chunks) |-> chunks[i].data]

AssembledFrame(uid, frame_id, timestamp, data) ==
    [uid |-> uid, frame_id |-> frame_id, timestamp |-> timestamp,
     data |-> data]

NoFrame == AssembledFrame(0, 0, 0, <<>>)

\* A client's cap lifted by one.
FrameLimitOffByOne(slots) ==
    ~(Cardinality(DOMAIN slots) > MAX_FRAMES_PER_CLIENT)

\* The per-client cap of _process_chunk: may uid open one more slot?
FrameLimitOk(slots) == ~(Cardinality(DOMAIN slots) >= MAX_FRAMES_PER_CLIENT)

\* The size cap of _process_chunk.
FrameSizeOk(d) == ~(d.total_chunks * d.chunk_size > MAX_FRAME_SIZE)

\* VideoServer._process_chunk: the verdict on chunk d, the chunk buffers it
\* leaves and the frame it assembles, if any.
process_chunk(d, born) ==
    LET uid == d.uid
        fid == d.frame_id
        slots == SlotsOf(chunk_buffers, uid)
        fresh == fid \notin DOMAIN slots
        opened == DictSet(slots, fid, Slot(d, born))
        slot == IF fresh THEN Slot(d, born) ELSE slots[fid]
        filled == [slot EXCEPT
                     !.chunks[d.chunk_idx + 1] =
                         [data |-> d.payload, timestamp |-> d.timestamp],
                     !.remaining = @ - 1]
        held == IF fresh THEN opened ELSE slots
    IN
    IF fresh /\ ~FrameLimitOk(slots)
    THEN [verdict |-> "limit", frame |-> NoFrame,
          buffers |-> DictSet(chunk_buffers, uid, slots)]
    ELSE IF fresh /\ ~FrameSizeOk(d)
    THEN [verdict |-> "oversize", frame |-> NoFrame,
          buffers |-> DictSet(chunk_buffers, uid, slots)]
    ELSE IF d.total_chunks # slot.total
    THEN [verdict |-> "total_mismatch", frame |-> NoFrame,
          buffers |-> DictSet(chunk_buffers, uid, held)]
    ELSE IF d.chunk_size # slot.chunk_size
    THEN [verdict |-> "size_mismatch", frame |-> NoFrame,
          buffers |-> DictSet(chunk_buffers, uid, held)]
    ELSE IF d.chunk_idx >= slot.total
    THEN [verdict |-> "idx_range", frame |-> NoFrame,
          buffers |-> DictSet(chunk_buffers, uid, held)]
    ELSE IF slot.chunks[d.chunk_idx + 1].timestamp # NoChunk.timestamp
    THEN [verdict |-> "duplicate", frame |-> NoFrame,
          buffers |-> DictSet(chunk_buffers, uid, held)]
    ELSE IF filled.remaining = 0
    THEN [verdict |-> "assembled",
          frame |-> AssembledFrame(uid, fid, d.timestamp,
                                   JoinChunks(filled.chunks)),
          buffers |-> DictSet(chunk_buffers, uid, DictDel(held, fid))]
    ELSE [verdict |-> "stored", frame |-> NoFrame,
          buffers |-> DictSet(chunk_buffers, uid, DictSet(held, fid, filled))]

\* ClientVideoInfo(uid, addr) with its receive_port and the time of its last
\* packet.
ClientVideoInfo(d, now) ==
    [uid |-> d.uid, host |-> d.host, receive_port |-> d.receive_port,
     last |-> now]

NoDatagram == VideoDatagram("none", 0, 0, 0, 0, 0, 0, 0,
                            ChunkPayload(0, 0, 0, 0))

NoVideoPacket == [kind |-> "none", uid |-> 0, frame_id |-> 0, verdict |-> "none",
                  slots_before |-> <<>>, slots_after |-> <<>>,
                  fresh |-> FALSE, open |-> 0, size |-> 0,
                  registered |-> FALSE, dgram |-> NoDatagram]

\* How often each chunk of frame key has come since its slot was last
\* opened or timed out.
NoneArrived(key) == [i \in 1..Len(VideoFrames[key]) |-> 0]

\* Every chunk of frame k has arrived, once, since its slot was opened, with
\* no timeout of the slot in between.
AllArrived(k) == \A i \in 1..Len(VideoFrames[k]) : varrived[k][i] = 1

\* The client table holds uid with this receive port.
Registered(uid, port) ==
    uid \in DOMAIN vclients /\ vobjs[vclients[uid]].receive_port = port

\* VideoServer.handle_packet, with at most limit datagrams in a run.
handle_packet_upto(d, limit) ==
    /\ vpackets < limit
    /\ vpackets' = vpackets + 1
    /\ IF ~parse_chunk_header(d)
       THEN /\ vlast' = [NoVideoPacket EXCEPT
                            !.kind = d.kind, !.uid = d.uid,
                            !.verdict = "invalid",
                            !.registered = Registered(d.uid, d.receive_port),
                            !.dgram = d]
            /\ UNCHANGED <<vclients, vobjs, chunk_buffers, broadcast_queue,
                           varrived, assembled>>
       ELSE
       LET uid == d.uid
           key == <<uid, d.frame_id>>
           now == vpackets + 1
           known == uid \in DOMAIN vclients
           res == process_chunk(d, now)
           before == SlotsOf(chunk_buffers, uid)
       IN /\ vobjs' = IF known
                       THEN [vobjs EXCEPT ![vclients[uid]] =
                                ClientVideoInfo(d, now)]
                       ELSE Append(vobjs, ClientVideoInfo(d, now))
          /\ vclients' = IF known THEN vclients
                          ELSE DictSet(vclients, uid, Len(vobjs) + 1)
          /\ chunk_buffers' = res.buffers
          /\ broadcast_queue' = IF res.verdict = "assembled"
                                THEN Append(broadcast_queue, res.frame)
                                ELSE broadcast_queue
          /\ vlast' = [kind |-> d.kind, uid |-> uid, frame_id |-> d.frame_id,
                       verdict |-> res.verdict,
                       slots_before |-> before,
                       slots_after |-> SlotsOf(res.buffers, uid),
                       fresh |-> d.frame_id \notin DOMAIN before,
                       open |-> Cardinality(DOMAIN before),
                       size |-> d.total_chunks * d.chunk_size,
                       registered |-> TRUE, dgram |-> d]
          /\ varrived' = IF key \in FrameKeys /\ d.kind = "chunk"
                              /\ d.chunk_idx < Len(VideoFrames[key])
                         THEN [varrived EXCEPT ![key][d.chunk_idx + 1] = @ + 1]
                         ELSE varrived
          /\ assembled' = IF res.verdict = "assembled" /\ key \in FrameKeys
                          THEN [assembled EXCEPT
                                  ![key] = Append(@, res.frame.data)]
                          ELSE assembled
    /\ UNCHANGED <<bw, fan, fanned, vswept>>
    /\ UNCHANGED nonVideoVars

\* VideoServer.handle_packet
video_handle_packet(d) == handle_packet_upto(d, MaxVideoPackets)

\* The sweep discards nothing.
AllSlots(slots, t) == slots

\* The slots of a uid made after time t.
YoungSlots(slots, t) == [f \in {g \in DOMAIN slots : slots[g].born > t} |-> slots[f]]

\* The frame ids that have a slot.
FrameIdsHeld == UNION {DOMAIN chunk_buffers[u] : u \in DOMAIN chunk_buffers}

\* The (uid, frame id) of the slots made at or before time ts.
TimedOutSlots(ts) ==
    {<<u, f>> \in (DOMAIN chunk_buffers) \X FrameIdsHeld :
        f \in DOMAIN chunk_buffers[u] /\ chunk_buffers[u][f].born <= ts}

\* One round of cleanup_task: _cleanup_timeout_chunks discards the slots
\* made at or before time ts (CHUNK_TIMEOUT ago) and
\* _cleanup_timeout_clients the clients last heard at or before time tc
\* (CLIENT_TIMEOUT ago, so tc <= ts).
video_cleanup_task(ts, tc) ==
    /\ tc <= ts
    /\ TimedOutSlots(ts)
         \cup {<<u, 0>> : u \in {v \in DOMAIN vclients :
                                    vobjs[vclients[v]].last <= tc}} # {}
    /\ chunk_buffers' = [u \in DOMAIN chunk_buffers |->
                            YoungSlots(chunk_buffers[u], ts)]
    /\ vclients' = [u \in {v \in DOMAIN vclients : vobjs[vclients[v]].last > tc}
                       |-> vclients[u]]
    /\ varrived' = [k \in FrameKeys |->
                       IF /\ k[1] \in DOMAIN chunk_buffers
                          /\ k[2] \in DOMAIN chunk_buffers[k[1]]
                          /\ chunk_buffers[k[1]][k[2]].born <= ts
                       THEN NoneArrived(k) ELSE varrived[k]]
    /\ vswept' = vswept \cup TimedOutSlots(ts)
    /\ UNCHANGED <<vobjs, broadcast_queue, bw, vlast, assembled, fan, fanned,
                   vpackets>>
    /\ UNCHANGED nonVideoVars

\* The worker leaves the sender in its list.
KeepSender(todo, uid) == todo

\* The clients of the worker's list that come before the next one it sends
\* to: `if client.uid == assembled_frame.uid: continue`.
SkipSender(todo, uid) ==
    IF todo # <<>> /\ vobjs[Head(todo)].uid = uid THEN Tail(todo) ELSE todo

\* list(self.clients.values()): the clients' objects, in the order the
\* clients were entered.
ActiveClients == SortedSeq({vclients[u] : u \in DOMAIN vclients})

\* The address the worker sends to for a client object.
BroadcastAddr(o) == <<vobjs[o].host, vobjs[o].receive_port>>

NoFan == [from |-> 0, frame_id |-> 0, data |-> <<>>, others |-> {},
          dests |-> <<>>, hit |-> FALSE, done |-> FALSE]

\* The worker goes on from its list todo for frame: it passes the sender,
\* and either calls sock_sendto for the next client or is through.
broadcast_go_on(frame, todo, f) ==
    LET rest == SkipSender(todo, frame.uid) IN
    IF rest = <<>>
    THEN /\ bw' = [pc |-> "idle", frame |-> NoFrame, todo |-> <<>>]
         /\ fan' = [f EXCEPT !.done = TRUE]
    ELSE /\ bw' = [pc |-> "sending", frame |-> frame, todo |-> Tail(rest)]
         /\ fan' = [f EXCEPT
                       !.dests = Append(@, <<vobjs[Head(rest)].uid,
                                             BroadcastAddr(Head(rest))>>),
                       !.hit = @ \/ (/\ frame.uid \in DOMAIN vclients
                                     /\ BroadcastAddr(Head(rest)) =
                                          BroadcastAddr(vclients[frame.uid]))]

\* VideoServer._broadcast_worker takes a frame off the queue and lists the
\* clients.
broadcast_worker ==
    /\ bw.pc = "idle"
    /\ broadcast_queue # <<>>
    /\ broadcast_queue' = Tail(broadcast_queue)
    /\ broadcast_go_on(Head(broadcast_queue), ActiveClients,
                       [NoFan EXCEPT
                          !.from = Head(broadcast_queue).uid,
                          !.frame_id = Head(broadcast_queue).frame_id,
                          !.data = Head(broadcast_queue).data,
                          !.others = (DOMAIN vclients)
                                        \ {Head(broadcast_queue).uid}])
    /\ fanned' = Append(fanned, <<Head(broadcast_queue).uid,
                                  Head(broadcast_queue).frame_id>>)
    /\ UNCHANGED <<vclients, vobjs, chunk_buffers, vlast, varrived, assembled,
                   vpackets, vswept>>
    /\ UNCHANGED nonVideoVars

\* sock_sendto has returned to the worker.
broadcast_worker_sent ==
    /\ bw.pc = "sending"
    /\ broadcast_go_on(bw.frame, bw.todo, fan)
    /\ UNCHANGED <<vclients, vobjs, chunk_buffers, broadcast_queue, vlast,
                   varrived, assembled, fanned, vpackets, vswept>>
    /\ UNCHANGED nonVideoVars

InitVideo ==
    /\ vclients = <<>>
    /\ vobjs = <<>>
    /\ chunk_buffers = <<>>
    /\ broadcast_queue = <<>>
    /\ bw = [pc |-> "idle", frame |-> NoFrame, todo |-> <<>>]
    /\ vlast = NoVideoPacket
    /\ varrived = [k \in FrameKeys |-> NoneArrived(k)]
    /\ assembled = [k \in FrameKeys |-> <<>>]
    /\ fan = NoFan
    /\ fanned = <<>>
    /\ vpackets = 0
    /\ vswept = {}

\* A sender that opens frame after frame and completes none: the first
\* chunks of two-chunk frames, and one chunk that declares a frame of more
\* than MAX_FRAME_SIZE bytes.
FloodDatagrams ==
    {VideoDatagram("chunk", CHUNK_HEADER_SIZE + 1, 1, f, 0, 2, 1, 6001,
                   ChunkPayload(1, f, 0, 1)) : f \in 1..MaxFloodPackets}
    \cup {VideoDatagram("chunk", CHUNK_HEADER_SIZE + MAX_CHUNK_SIZE, 1, 0, 0,
                        MAX_FRAME_SIZE \div MAX_CHUNK_SIZE + 1, MAX_CHUNK_SIZE,
                        6001, ChunkPayload(1, 0, 0, MAX_CHUNK_SIZE))}

\* The flood: the sender's n-th datagram opens its frame n, or declares the
\* oversize frame, which it tries before it starts and once it has opened
\* MAX_FRAMES_PER_CLIENT frames.
NextVideoFlood ==
    \/ \E d \in FloodDatagrams :
          /\ \/ d.frame_id = vpackets + 1
             \/ d.frame_id = 0 /\ (vpackets = 0 \/ vpackets >= MAX_FRAMES_PER_CLIENT)
          /\ handle_packet_upto(d, MaxFloodPackets)
    \/ \E ts \in 1..MaxFloodTimeouts : video_cleanup_task(ts, 0)

NextVideo ==
    \/ \E d \in VideoDatagrams : video_handle_packet(d)
    \/ \E ts, tc \in 0..MaxVideoPackets : video_cleanup_task(ts, tc)
    \/ broadcast_worker
    \/ broadcast_worker_sent

(***************************************************************************)
(* Screen sharing (server/screen/screen_server.py).  The handlers of the   *)
(* control connections, the relay task of every presenter connection and   *)
(* the accept_viewer task of every viewer connection are coroutines of one *)
(* event loop: one runs at a time, up to its next await.  A task that was  *)
(* cancelled gets CancelledError at the await it is suspended in.          *)
(***************************************************************************)
HandlerTask(u) == <<"h", u>>
RelayTask(p) == <<"r", p>>
ViewerTask(v) == <<"v", v>>
NoTask == <<"", 0>>

\* The control connections: self.clients holds every uid of ScreenUids.
ScreenUids == 1..MaxScreenUids
PresenterConns == 1..MaxPresenterConns
ViewerConns == 1..MaxViewerConns
ScreenTasks ==
    {HandlerTask(u) : u \in ScreenUids}
    \cup {RelayTask(p) : p \in PresenterConns}
    \cup {ViewerTask(v) : v \in ViewerConns}

\* ScreenServer._get_username
screen_get_username(uid) == IF uid = 1 THEN "alice" ELSE "bob"

\* create_screen_share_ports_message, create_present_start_broadcast_message,
\* create_present_stop_broadcast_message, create_error_message.
ScreenOut(type, uid, username, topic, presenter_port, viewer_port, text) ==
    [type |-> type, uid |-> uid, username |-> username, topic |-> topic,
     presenter_port |-> presenter_port, viewer_port |-> viewer_port,
     text |-> text]

NoScreenOut == ScreenOut("", 0, "", "", 0, 0, "")

\* The presentation dict handle_present_start makes.
Presentation(uid, topic, presenter_port, viewer_port) ==
    [uid |-> uid, username |-> screen_get_username(uid), topic |-> topic,
     presenter_port |-> presenter_port, viewer_port |-> viewer_port,
     presenter_writer |-> 0, viewers |-> {}, frame_relay_task |-> NoTask,
     presenter_server |-> FALSE, viewer_server |-> FALSE]

\* A task: where it is (pc), what it is suspended on (wait), its locals
\* (uid, obj: its presentation, out and ret: the message _send_message
\* sends and where it returns to, cret: where _cleanup_presentation
\* returns to, awaiting: the task it awaits, how: why a relay left its
\* loop), the cancellation it has not yet got (must_cancel), whether it
\* has awaited itself (blocking: the flag Future.__await__ left set), and
\* how it ended (end).
T0 == [pc |-> "new", wait |-> "new", uid |-> 0, obj |-> 0, out |-> NoScreenOut,
       ret |-> "", cret |-> "", awaiting |-> NoTask, how |-> "",
       must_cancel |-> FALSE, blocking |-> FALSE, end |-> ""]

\* A connection to a presenter port: the presentation whose server took it,
\* the frames its peer has sent that the relay has not read, the frames
\* sent so far, whether the peer or the server has closed it.
PConn0 == [obj |-> 0, pending |-> 0, sent |-> 0, eof |-> FALSE]

\* A connection to a viewer port: the presentation whose server took it,
\* the frames written to it, whether the server closed it.
VConn0 == [obj |-> 0, got |-> <<>>, closed |-> FALSE]

NoRequest == [kind |-> "", fresh |-> FALSE, active |-> FALSE,
              relaying |-> FALSE, obj |-> 0]

TaskDone(t) == stasks[t].end # ""

\* The uid of a relay's or a handler's presentation closure.
ObjUid(o) == pobjs[o].uid

\* asyncio.Lock.release: the first waiter gets the lock.
LockReleased(l) ==
    IF l.waiters = <<>> THEN [l EXCEPT !.holder = NoTask]
    ELSE [holder |-> Head(l.waiters), waiters |-> Tail(l.waiters)]

\* The lock without t: t's acquire was cancelled, or t gives the lock up.
LockWithout(l, t) ==
    IF l.holder = t THEN LockReleased(l)
    ELSE [l EXCEPT !.waiters = SelectSeq(@, LAMBDA w : w # t)]

\* `async with self.lock` entered by the running task t, which goes on at
\* next: at once when the lock is free and nobody waits.
ScreenAcquire(ts, t, next) ==
    /\ IF slock.holder = NoTask /\ slock.waiters = <<>>
       THEN /\ slock' = [slock EXCEPT !.holder = t]
            /\ stasks' = [ts EXCEPT ![t].pc = next]
            /\ UNCHANGED srunning
       ELSE /\ slock' = [slock EXCEPT !.waiters = Append(@, t)]
            /\ stasks' = [ts EXCEPT ![t].pc = next, ![t].wait = "lock"]
            /\ srunning' = NoTask

\* Task.cancel(): a task that is not done gets CancelledError at its next
\* resumption, its wait for the lock is over, and the task it awaits is
\* cancelled as well.
CancelOne(ts, x) ==
    IF x = NoTask \/ ts[x].end # "" THEN ts
    ELSE [ts EXCEPT ![x].must_cancel = TRUE]

CancelTask(ts, x) ==
    IF x = NoTask \/ ts[x].end # "" THEN ts
    ELSE IF ts[x].wait = "task" THEN CancelOne(CancelOne(ts, x), ts[x].awaiting)
    ELSE CancelOne(ts, x)

\* An exception leaves the coroutine of t: handle_client logs it and reads
\* the next line; a relay task ends with it.
ScreenRaise(ts, t) ==
    IF t[1] = "h"
    THEN /\ stasks' = [ts EXCEPT ![t].pc = "ret_loop"]
         /\ UNCHANGED srunning
    ELSE /\ stasks' = [ts EXCEPT ![t].pc = "ended", ![t].wait = "done",
                                 ![t].end = "failed"]
         /\ srunning' = NoTask

\* The running task t suspends in an await that somebody else ends.
ScreenSuspend(ts, t, next, on) ==
    /\ stasks' = [ts EXCEPT ![t].pc = next, ![t].wait = on]
    /\ srunning' = NoTask

(***************************************************************************)
(* The event loop.                                                         *)
(***************************************************************************)
\* May the event loop resume t?
Resumable(t) ==
    LET k == stasks[t] IN
    /\ k.end = ""
    /\ \/ k.wait = "io"
       \/ k.wait = "lock" /\ (slock.holder = t \/ k.must_cancel)
       \/ k.wait = "read" /\ \/ k.must_cancel
                             \/ pconns[t[2]].pending > 0
                             \/ pconns[t[2]].eof
       \/ k.wait = "task" /\ (TaskDone(k.awaiting) \/ k.must_cancel)

\* The event loop resumes t.  A cancelled task gets CancelledError where it
\* is suspended: before its first step it ends; in the relay loop (at
\* readexactly or at the lock) it enters `finally` and cleans up; at `await
\* frame_relay_task` the exception is caught and the cleanup goes on; at
\* any other await of the cleanup the exception ends the task.
screen_resume(t) ==
    /\ srunning = NoTask
    /\ Resumable(t)
    /\ LET k == stasks[t] IN
       IF ~k.must_cancel
       THEN /\ stasks' = [stasks EXCEPT ![t].wait = "none"]
            /\ srunning' = t
            /\ UNCHANGED slock
       ELSE IF k.pc \in {"r_read", "r_locked"}
       THEN /\ stasks' = [stasks EXCEPT ![t].wait = "none",
                                        ![t].must_cancel = FALSE,
                                        ![t].pc = "c1", ![t].cret = "r_end",
                                        ![t].how = "cancelled"]
            /\ srunning' = t
            /\ slock' = LockWithout(slock, t)
       ELSE IF k.pc = "c2_wait"
       THEN /\ stasks' = [stasks EXCEPT ![t].wait = "none",
                                        ![t].must_cancel = FALSE]
            /\ srunning' = t
            /\ UNCHANGED slock
       ELSE /\ stasks' = [stasks EXCEPT ![t].wait = "done",
                                        ![t].must_cancel = FALSE,
                                        ![t].pc = "ended",
                                        ![t].end = "cancelled"]
            /\ srunning' = NoTask
            /\ slock' = LockWithout(slock, t)
    /\ UNCHANGED <<presentations, pobjs, screen_next_port, servers, pconns,
                   vconns, srecv, slast, slines>>
    /\ UNCHANGED nonScreenVars

\* A control line of uid u arrives: handle_client dispatches it.
screen_line(u, kind) ==
    /\ srunning = NoTask
    /\ stasks[HandlerTask(u)].pc = "idle"
    /\ slines < MaxScreenLines
    /\ slines' = slines + 1
    /\ stasks' = [stasks EXCEPT ![HandlerTask(u)].pc = kind,
                                ![HandlerTask(u)].wait = "none"]
    /\ srunning' = HandlerTask(u)
    /\ UNCHANGED <<presentations, pobjs, screen_next_port, servers, slock,
                   pconns, vconns, srecv, slast>>
    /\ UNCHANGED nonScreenVars

\* The handler returned, or handle_client logged its exception: the task
\* awaits the next line.
screen_return(t) ==
    /\ srunning = t
    /\ stasks[t].pc = "ret_loop"
    /\ stasks' = [stasks EXCEPT ![t].pc = "idle", ![t].wait = "readline"]
    /\ srunning' = NoTask
    /\ UNCHANGED <<presentations, pobjs, screen_next_port, servers, slock,
                   pconns, vconns, srecv, slast, slines>>
    /\ UNCHANGED nonScreenVars

(***************************************************************************)
(* ScreenServer._send_message: the caller set out and ret and entered      *)
(* `async with self.lock`.                                                 *)
(***************************************************************************)
\* writer.write, then await writer.drain() with the lock held.
screen_send_message(t) ==
    /\ srunning = t
    /\ stasks[t].pc = "sm_locked"
    /\ slock.holder = t
    /\ srecv' = [srecv EXCEPT ![stasks[t].uid] = Append(@, stasks[t].out)]
    /\ ScreenSuspend(stasks, t, "sm_drained", "io")
    /\ UNCHANGED <<presentations, pobjs, screen_next_port, servers, slock,
                   pconns, vconns, slast, slines>>
    /\ UNCHANGED nonScreenVars

\* drain is over: the lock is released and _send_message returns.
screen_send_message_done(t) ==
    /\ srunning = t
    /\ stasks[t].pc = "sm_drained"
    /\ slock' = LockReleased(slock)
    /\ stasks' = [stasks EXCEPT ![t].pc = stasks[t].ret]
    /\ UNCHANGED <<presentations, pobjs, screen_next_port, servers, srunning,
                   pconns, vconns, srecv, slast, slines>>
    /\ UNCHANGED nonScreenVars

(***************************************************************************)
(* ScreenServer.handle_present_start                                       *)
(***************************************************************************)
\* `if uid in self.presentations` fails for every uid.
NoActivePresentation(uid) == FALSE

\* if uid in self.presentations
HasActivePresentation(uid) == uid \in DOMAIN presentations

\* Up to `await asyncio.start_server(accept_presenter, ...)`.
handle_present_start(t) ==
    /\ srunning = t
    /\ stasks[t].pc = "present_start"
    /\ LET uid == stasks[t].uid IN
       IF HasActivePresentation(uid)
       THEN /\ ScreenAcquire(
                 [stasks EXCEPT
                    ![t].out = ScreenOut("error", 0, "", "", 0, 0,
                                   "You already have an active presentation"),
                    ![t].ret = "ret_loop"], t, "sm_locked")
            /\ slast' = [slast EXCEPT ![uid] =
                            [NoRequest EXCEPT !.kind = "present_start"]]
            /\ UNCHANGED <<presentations, pobjs, screen_next_port>>
       ELSE /\ screen_next_port' = screen_next_port + 2
            /\ pobjs' = Append(pobjs, Presentation(uid, Topic, screen_next_port,
                                                   screen_next_port + 1))
            /\ presentations' = DictSet(presentations, uid, Len(pobjs) + 1)
            /\ ScreenSuspend([stasks EXCEPT ![t].obj = Len(pobjs) + 1], t,
                             "hs_pserver", "io")
            /\ slast' = [slast EXCEPT ![uid] =
                            [NoRequest EXCEPT !.kind = "present_start",
                                              !.fresh = TRUE,
                                              !.obj = Len(pobjs) + 1]]
            /\ UNCHANGED slock
    /\ UNCHANGED <<servers, pconns, vconns, srecv, slines>>
    /\ UNCHANGED nonScreenVars

\* The presenter server listens; up to `await asyncio.start_server(
\* accept_viewer, ...)`.
handle_present_start_presenter_server(t) ==
    /\ srunning = t
    /\ stasks[t].pc = "hs_pserver"
    /\ LET o == stasks[t].obj IN
       /\ pobjs' = [pobjs EXCEPT ![o].presenter_server = TRUE]
       /\ servers' = DictSet(servers, pobjs[o].presenter_port,
                             [obj |-> o, role |-> "presenter"])
    /\ ScreenSuspend(stasks, t, "hs_vserver", "io")
    /\ UNCHANGED <<presentations, screen_next_port, slock, pconns, vconns,
                   srecv, slast, slines>>
    /\ UNCHANGED nonScreenVars

\* The viewer server listens; _send_message(screen_share_ports) begins.
handle_present_start_viewer_server(t) ==
    /\ srunning = t
    /\ stasks[t].pc = "hs_vserver"
    /\ LET o == stasks[t].obj IN
       /\ pobjs' = [pobjs EXCEPT ![o].viewer_server = TRUE]
       /\ servers' = DictSet(servers, pobjs[o].viewer_port,
                             [obj |-> o, role |-> "viewer"])
       /\ ScreenAcquire(
             [stasks EXCEPT
                ![t].out = ScreenOut("screen_share_ports", 0, "", "",
                                     pobjs[o].presenter_port,
                                     pobjs[o].viewer_port, ""),
                ![t].ret = "hs_broadcast"], t, "sm_locked")
    /\ UNCHANGED <<presentations, screen_next_port, pconns, vconns, srecv,
                   slast, slines>>
    /\ UNCHANGED nonScreenVars

\* create_present_start_broadcast_message reads
\* MessageTypes.PRESENT_START_BROADCAST, which MessageTypes does not have:
\* AttributeError, and `except Exception` calls _cleanup_presentation.
handle_present_start_broadcast(t) ==
    /\ srunning = t
    /\ stasks[t].pc = "hs_broadcast"
    /\ stasks' = [stasks EXCEPT ![t].pc = "c1", ![t].cret = "hs_failed"]
    /\ UNCHANGED <<presentations, pobjs, screen_next_port, servers, slock,
                   srunning, pconns, vconns, srecv, slast, slines>>
    /\ UNCHANGED nonScreenVars

\* The cleanup returned: _send_message(error "Failed to start ...").
handle_present_start_failed(t) ==
    /\ srunning = t
    /\ stasks[t].pc = "hs_failed"
    /\ ScreenAcquire(
          [stasks EXCEPT
             ![t].out = ScreenOut("error", 0, "", "", 0, 0,
                                  "Failed to start screen sharing"),
             ![t].ret = "ret_loop"], t, "sm_locked")
    /\ UNCHANGED <<presentations, pobjs, screen_next_port, servers, pconns,
                   vconns, srecv, slast, slines>>
    /\ UNCHANGED nonScreenVars

(***************************************************************************)
(* ScreenServer.handle_present_stop                                        *)
(***************************************************************************)
handle_present_stop(t) ==
    /\ srunning = t
    /\ stasks[t].pc = "present_stop"
    /\ LET uid == stasks[t].uid IN
       IF uid \notin DOMAIN presentations
       THEN /\ ScreenAcquire(
                 [stasks EXCEPT
                    ![t].out = ScreenOut("error", 0, "", "", 0, 0,
                                   "You don't have an active presentation"),
                    ![t].ret = "ret_loop"], t, "sm_locked")
            /\ slast' = [slast EXCEPT ![uid] =
                            [NoRequest EXCEPT !.kind = "present_stop"]]
       ELSE /\ stasks' = [stasks EXCEPT ![t].pc = "c1",
                                        ![t].cret = "hp_broadcast"]
            /\ slast' = [slast EXCEPT ![uid] =
                            [kind |-> "present_stop", fresh |-> FALSE,
                             active |-> TRUE,
                             relaying |->
                                pobjs[presentations[uid]].presenter_writer # 0,
                             obj |-> presentations[uid]]]
            /\ UNCHANGED <<slock, srunning>>
    /\ UNCHANGED <<presentations, pobjs, screen_next_port, servers, pconns,
                   vconns, srecv, slines>>
    /\ UNCHANGED nonScreenVars

\* create_present_stop_broadcast_message reads
\* MessageTypes.PRESENT_STOP_BROADCAST, which MessageTypes does not have:
\* AttributeError leaves the handler.
handle_present_stop_broadcast(t) ==
    /\ srunning = t
    /\ stasks[t].pc = "hp_broadcast"
    /\ ScreenRaise(stasks, t)
    /\ UNCHANGED <<presentations, pobjs, screen_next_port, servers, slock,
                   pconns, vconns, srecv, slast, slines>>
    /\ UNCHANGED nonScreenVars

(***************************************************************************)
(* ScreenServer._cleanup_presentation, called by the running task t for    *)
(* its uid; it returns to cret.                                            *)
(***************************************************************************)
\* Up to `await presentation['frame_relay_task']`.  Awaiting a task that is
\* done returns at once (its CancelledError is caught, any other exception
\* of it is raised); a task that awaits itself gets the CancelledError it
\* has just asked for, after one round of the event loop; awaiting a
\* pending task that has awaited itself raises RuntimeError ("await wasn't
\* used with future").
cleanup_presentation(t) ==
    /\ srunning = t
    /\ stasks[t].pc = "c1"
    /\ LET uid == stasks[t].uid IN
       IF uid \notin DOMAIN presentations
       THEN /\ stasks' = [stasks EXCEPT ![t].pc = stasks[t].cret]
            /\ UNCHANGED <<srunning, slock>>
       ELSE
       LET o == presentations[uid]
           x == pobjs[o].frame_relay_task
           ts == [CancelTask(stasks, x) EXCEPT ![t].obj = o]
           l == IF x # NoTask /\ x # t /\ ~TaskDone(x)
                   /\ stasks[x].wait = "lock" /\ slock.holder # x
                THEN LockWithout(slock, x) ELSE slock
       IN
       /\ slock' = l
       /\ IF x = NoTask
          THEN /\ stasks' = [ts EXCEPT ![t].pc = "c3"]
               /\ UNCHANGED srunning
          ELSE IF x = t
          THEN ScreenSuspend([ts EXCEPT ![t].must_cancel = FALSE,
                                        ![t].blocking = TRUE,
                                        ![t].awaiting = t], t, "c2_wait", "io")
          ELSE IF TaskDone(x)
          THEN IF stasks[x].end = "failed"
               THEN ScreenRaise(ts, t)
               ELSE /\ stasks' = [ts EXCEPT ![t].pc = "c3"]
                    /\ UNCHANGED srunning
          ELSE IF stasks[x].blocking
          THEN ScreenRaise(ts, t)
          ELSE ScreenSuspend([ts EXCEPT ![t].awaiting = x], t, "c2_wait",
                             "task")
    /\ UNCHANGED <<presentations, pobjs, screen_next_port, servers, pconns,
                   vconns, srecv, slast, slines>>
    /\ UNCHANGED nonScreenVars

\* `await presentation['frame_relay_task']` is over.
cleanup_presentation_awaited(t) ==
    /\ srunning = t
    /\ stasks[t].pc = "c2_wait"
    /\ LET x == stasks[t].awaiting IN
       IF x # t /\ stasks[x].end = "failed"
       THEN ScreenRaise(stasks, t)
       ELSE /\ stasks' = [stasks EXCEPT ![t].pc = "c3"]
            /\ UNCHANGED srunning
    /\ UNCHANGED <<presentations, pobjs, screen_next_port, servers, slock,
                   pconns, vconns, srecv, slast, slines>>
    /\ UNCHANGED nonScreenVars

\* presenter_writer.close() and await wait_closed(); with no presenter
\* writer, on to `async with self.lock`.
cleanup_presentation_presenter(t) ==
    /\ srunning = t
    /\ stasks[t].pc = "c3"
    /\ LET p == pobjs[stasks[t].obj].presenter_writer IN
       IF p # 0
       THEN /\ pconns' = [pconns EXCEPT ![p].eof = TRUE]
            /\ ScreenSuspend(stasks, t, "c3_closed", "io")
            /\ UNCHANGED slock
       ELSE /\ ScreenAcquire(stasks, t, "c4_locked")
            /\ UNCHANGED pconns
    /\ UNCHANGED <<presentations, pobjs, screen_next_port, servers, vconns,
                   srecv, slast, slines>>
    /\ UNCHANGED nonScreenVars

\* wait_closed() is over: `async with self.lock`.
cleanup_presentation_presenter_closed(t) ==
    /\ srunning = t
    /\ stasks[t].pc = "c3_closed"
    /\ ScreenAcquire(stasks, t, "c4_locked")
    /\ UNCHANGED <<presentations, pobjs, screen_next_port, servers, pconns,
                   vconns, srecv, slast, slines>>
    /\ UNCHANGED nonScreenVars

\* With the lock: every viewer writer is closed and awaited.
cleanup_presentation_viewers(t) ==
    /\ srunning = t
    /\ stasks[t].pc = "c4_locked"
    /\ slock.holder = t
    /\ LET vs == pobjs[stasks[t].obj].viewers IN
       /\ vconns' = [v \in DOMAIN vconns |->
                        IF v \in vs THEN [vconns[v] EXCEPT !.closed = TRUE]
                        ELSE vconns[v]]
       /\ IF \E v \in vs : ~vconns[v].closed
          THEN /\ ScreenSuspend(stasks, t, "c4_closed", "io")
               /\ UNCHANGED slock
          ELSE /\ slock' = LockReleased(slock)
               /\ stasks' = [stasks EXCEPT ![t].pc = "c5"]
               /\ UNCHANGED srunning
    /\ UNCHANGED <<presentations, pobjs, screen_next_port, servers, pconns,
                   srecv, slast, slines>>
    /\ UNCHANGED nonScreenVars

\* The viewers are closed: the lock is released.
cleanup_presentation_viewers_closed(t) ==
    /\ srunning = t
    /\ stasks[t].pc = "c4_closed"
    /\ slock' = LockReleased(slock)
    /\ stasks' = [stasks EXCEPT ![t].pc = "c5"]
    /\ UNCHANGED <<presentations, pobjs, screen_next_port, servers, srunning,
                   pconns, vconns, srecv, slast, slines>>
    /\ UNCHANGED nonScreenVars

\* The servers the presentation has are closed, and
\* `del self.presentations[uid]`: KeyError when the uid is no longer there.
cleanup_presentation_servers(t) ==
    /\ srunning = t
    /\ stasks[t].pc = "c5"
    /\ LET o == stasks[t].obj
           uid == stasks[t].uid
           gone == {port \in DOMAIN servers :
                       /\ servers[port].obj = o
                       /\ \/ servers[port].role = "presenter"
                             /\ pobjs[o].presenter_server
                          \/ servers[port].role = "viewer"
                             /\ pobjs[o].viewer_server}
       IN
       /\ servers' = [port \in DOMAIN servers \ gone |-> servers[port]]
       /\ IF uid \in DOMAIN presentations
          THEN /\ presentations' = DictDel(presentations, uid)
               /\ stasks' = [stasks EXCEPT ![t].pc = stasks[t].cret]
               /\ UNCHANGED srunning
          ELSE /\ ScreenRaise(stasks, t)
               /\ UNCHANGED presentations
    /\ UNCHANGED <<pobjs, screen_next_port, slock, pconns, vconns, srecv,
                   slast, slines>>
    /\ UNCHANGED nonScreenVars

(***************************************************************************)
(* accept_presenter and ScreenServer.relay_frames_for_presentation         *)
(***************************************************************************)
\* A connection to a presenter port that listens: accept_presenter records
\* its writer and makes its relay task.
accept_presenter(p, port) ==
    /\ srunning = NoTask
    /\ stasks[RelayTask(p)].pc = "new"
    /\ \A q \in PresenterConns : q < p => stasks[RelayTask(q)].pc # "new"
    /\ port \in DOMAIN servers
    /\ servers[port].role = "presenter"
    /\ LET o == servers[port].obj IN
       /\ pobjs' = [pobjs EXCEPT ![o].presenter_writer = p,
                                 ![o].frame_relay_task = RelayTask(p)]
       /\ pconns' = [pconns EXCEPT ![p].obj = o]
       /\ stasks' = [stasks EXCEPT ![RelayTask(p)] =
                        [T0 EXCEPT !.pc = "r_begin", !.wait = "io",
                                   !.uid = ObjUid(o)]]
    /\ UNCHANGED <<presentations, screen_next_port, servers, slock, srunning,
                   vconns, srecv, slast, slines>>
    /\ UNCHANGED nonScreenVars

\* The peer of presenter connection p sends a frame.
presenter_sends(p) ==
    /\ srunning = NoTask
    /\ pconns[p].obj # 0
    /\ ~pconns[p].eof
    /\ pconns[p].sent < MaxFrames
    /\ pconns' = [pconns EXCEPT ![p].pending = @ + 1, ![p].sent = @ + 1]
    /\ UNCHANGED <<presentations, pobjs, screen_next_port, servers, slock,
                   srunning, stasks, vconns, srecv, slast, slines>>
    /\ UNCHANGED nonScreenVars

\* The peer of presenter connection p closes it.
presenter_closes(p) ==
    /\ srunning = NoTask
    /\ pconns[p].obj # 0
    /\ ~pconns[p].eof
    /\ pconns' = [pconns EXCEPT ![p].eof = TRUE]
    /\ UNCHANGED <<presentations, pobjs, screen_next_port, servers, slock,
                   srunning, stasks, vconns, srecv, slast, slines>>
    /\ UNCHANGED nonScreenVars

\* The first step of a relay task: self.presentations.get(presenter_uid),
\* the loop's test, and `await presenter_reader.readexactly(4)`.  A task
\* cancelled before its first step ends there.
relay_frames_for_presentation(t) ==
    /\ srunning = t
    /\ stasks[t].pc = "r_begin"
    /\ LET uid == stasks[t].uid IN
       IF uid \notin DOMAIN presentations
       THEN /\ stasks' = [stasks EXCEPT ![t].pc = "ended", ![t].wait = "done",
                                        ![t].end = "returned"]
            /\ srunning' = NoTask
       ELSE ScreenSuspend([stasks EXCEPT ![t].obj = presentations[uid]], t,
                          "r_read", "read")
    /\ UNCHANGED <<presentations, pobjs, screen_next_port, servers, slock,
                   pconns, vconns, srecv, slast, slines>>
    /\ UNCHANGED nonScreenVars

\* readexactly returns a frame, and the task enters `async with self.lock`;
\* or it raises IncompleteReadError: break, and `finally` cleans up.
relay_read(t) ==
    /\ srunning = t
    /\ stasks[t].pc = "r_read"
    /\ LET p == t[2] IN
       IF pconns[p].pending > 0
       THEN /\ pconns' = [pconns EXCEPT ![p].pending = @ - 1]
            /\ ScreenAcquire(stasks, t, "r_locked")
       ELSE /\ stasks' = [stasks EXCEPT ![t].pc = "c1", ![t].cret = "r_end",
                                        ![t].how = "eof"]
            /\ UNCHANGED <<pconns, slock, srunning>>
    /\ UNCHANGED <<presentations, pobjs, screen_next_port, servers, vconns,
                   srecv, slast, slines>>
    /\ UNCHANGED nonScreenVars

\* The viewers all presentations have.
AllViewers(o) == UNION {pobjs[i].viewers : i \in 1..Len(pobjs)}

\* presentation['viewers'] of the relay's presentation.
RelayViewers(o) == pobjs[o].viewers

\* With the lock: the frame is written to every viewer of the relay's
\* presentation, a viewer whose writer fails is removed; then the loop's
\* test and the next readexactly, or `finally`.
relay_write(t) ==
    /\ srunning = t
    /\ stasks[t].pc = "r_locked"
    /\ slock.holder = t
    /\ LET p == t[2]
           o == stasks[t].obj
           frame == <<p, pconns[p].sent - pconns[p].pending>>
           vs == RelayViewers(o)
       IN
       /\ vconns' = [v \in DOMAIN vconns |->
                        IF v \in vs /\ ~vconns[v].closed
                        THEN [vconns[v] EXCEPT !.got = Append(@, frame)]
                        ELSE vconns[v]]
       /\ pobjs' = [pobjs EXCEPT ![o].viewers =
                       {v \in @ : ~vconns[v].closed}]
    /\ slock' = LockReleased(slock)
    /\ IF stasks[t].uid \in DOMAIN presentations
       THEN ScreenSuspend(stasks, t, "r_read", "read")
       ELSE /\ stasks' = [stasks EXCEPT ![t].pc = "c1", ![t].cret = "r_end",
                                        ![t].how = "exit"]
            /\ UNCHANGED srunning
    /\ UNCHANGED <<presentations, screen_next_port, servers, pconns, srecv,
                   slast, slines>>
    /\ UNCHANGED nonScreenVars

\* The cleanup of `finally` returned: the task ends, cancelled when it left
\* the loop with CancelledError.
relay_end(t) ==
    /\ srunning = t
    /\ stasks[t].pc = "r_end"
    /\ stasks' = [stasks EXCEPT
                    ![t].pc = "ended", ![t].wait = "done",
                    ![t].end = IF stasks[t].how = "cancelled"
                               THEN "cancelled" ELSE "returned"]
    /\ srunning' = NoTask
    /\ UNCHANGED <<presentations, pobjs, screen_next_port, servers, slock,
                   pconns, vconns, srecv, slast, slines>>
    /\ UNCHANGED nonScreenVars

(***************************************************************************)
(* accept_viewer                                                           *)
(***************************************************************************)
\* A connection to a viewer port that listens: its accept_viewer task is
\* made.
viewer_connects(v, port) ==
    /\ srunning = NoTask
    /\ stasks[ViewerTask(v)].pc = "new"
    /\ \A w \in ViewerConns : w < v => stasks[ViewerTask(w)].pc # "new"
    /\ port \in DOMAIN servers
    /\ servers[port].role = "viewer"
    /\ vconns' = [vconns EXCEPT ![v].obj = servers[port].obj]
    /\ stasks' = [stasks EXCEPT ![ViewerTask(v)] =
                     [T0 EXCEPT !.pc = "av", !.wait = "io",
                                !.obj = servers[port].obj,
                                !.uid = ObjUid(servers[port].obj)]]
    /\ UNCHANGED <<presentations, pobjs, screen_next_port, servers, slock,
                   srunning, pconns, srecv, slast, slines>>
    /\ UNCHANGED nonScreenVars

\* accept_viewer up to `async with self.lock`.
accept_viewer(t) ==
    /\ srunning = t
    /\ stasks[t].pc = "av"
    /\ ScreenAcquire(stasks, t, "av_locked")
    /\ UNCHANGED <<presentations, pobjs, screen_next_port, servers, pconns,
                   vconns, srecv, slast, slines>>
    /\ UNCHANGED nonScreenVars

\* presentation['viewers'][viewer_id] = writer
accept_viewer_locked(t) ==
    /\ srunning = t
    /\ stasks[t].pc = "av_locked"
    /\ slock.holder = t
    /\ pobjs' = [pobjs EXCEPT ![stasks[t].obj].viewers = @ \cup {t[2]}]
    /\ slock' = LockReleased(slock)
    /\ stasks' = [stasks EXCEPT ![t].pc = "ended", ![t].wait = "done",
                                ![t].end = "returned"]
    /\ srunning' = NoTask
    /\ UNCHANGED <<presentations, screen_next_port, servers, pconns, vconns,
                   srecv, slast, slines>>
    /\ UNCHANGED nonScreenVars

\* ScreenServer.__init__, with the control connections of ScreenUids open.
InitScreen ==
    /\ presentations = <<>>
    /\ pobjs = <<>>
    /\ screen_next_port = SCREEN_EPHEMERAL_START
    /\ servers = <<>>
    /\ slock = [holder |-> NoTask, waiters |-> <<>>]
    /\ srunning = NoTask
    /\ stasks = [t \in ScreenTasks |->
                    IF t[1] = "h"
                    THEN [T0 EXCEPT !.pc = "idle", !.wait = "readline",
                                    !.uid = t[2]]
                    ELSE T0]
    /\ pconns = [p \in PresenterConns |-> PConn0]
    /\ vconns = [v \in ViewerConns |-> VConn0]
    /\ srecv = [u \in ScreenUids |-> <<>>]
    /\ slast = [u \in ScreenUids |-> NoRequest]
    /\ slines = 0

\* The steps of the tasks of a presentation that is started.
ScreenStartSteps(t) ==
    \/ screen_resume(t)
    \/ screen_return(t)
    \/ screen_send_message(t)
    \/ screen_send_message_done(t)
    \/ handle_present_start(t)
    \/ handle_present_start_presenter_server(t)
    \/ handle_present_start_viewer_server(t)
    \/ handle_present_start_broadcast(t)
    \/ handle_present_start_failed(t)
    \/ cleanup_presentation(t)
    \/ cleanup_presentation_awaited(t)
    \/ cleanup_presentation_presenter(t)
    \/ cleanup_presentation_presenter_closed(t)
    \/ cleanup_presentation_viewers(t)
    \/ cleanup_presentation_viewers_closed(t)
    \/ cleanup_presentation_servers(t)
    \/ relay_frames_for_presentation(t)
    \/ relay_read(t)
    \/ relay_write(t)
    \/ relay_end(t)
    \/ accept_viewer(t)
    \/ accept_viewer_locked(t)

\* One presenter, uid 1, who starts and stops; the other uid looks on.  One
\* connection comes to the presenter port.
NextScreen ==
    \/ \E t \in ScreenTasks :
          \/ ScreenStartSteps(t)
          \/ handle_present_stop(t)
          \/ handle_present_stop_broadcast(t)
    \/ \E kind \in {"present_start", "present_stop"} : screen_line(1, kind)
    \/ \E port \in DOMAIN servers : accept_presenter(1, port)
    \/ presenter_sends(1)
    \/ presenter_closes(1)
    \/ \E v \in ViewerConns, port \in DOMAIN servers : viewer_connects(v, port)

\* Two presenters: uid 1 starts a presentation, then uid 2 does.  The
\* connections to presenter ports come to uid 1's, and their peers send
\* frames; a viewer connects to either viewer port.
NextScreenPair ==
    \/ \E t \in ScreenTasks : ScreenStartSteps(t)
    \/ \E u \in ScreenUids :
          /\ slast[u].kind = ""
          /\ \A v \in ScreenUids : v < u => slast[v].kind # ""
          /\ screen_line(u, "present_start")
    \/ \E p \in PresenterConns, port \in DOMAIN servers :
          /\ ObjUid(servers[port].obj) = 1
          /\ accept_presenter(p, port)
    \/ \E p \in PresenterConns : presenter_sends(p)
    \/ \E v \in 1..MaxPairViewers, port \in DOMAIN servers :
          viewer_connects(v, port)

(***************************************************************************)
(* The client's chat widget: ChatWidget._file_links.                       *)
(***************************************************************************)
FileLink(fid, timestamp) == [fid |-> fid, timestamp |-> timestamp]

\* The index of fid's entry in the dict, or 0.
LinkIndex(links, fid) ==
    IF \E i \in 1..Len(links) : links[i].fid = fid
    THEN CHOOSE i \in 1..Len(links) : links[i].fid = fid
    ELSE 0

\* del links[fid]
LinkDel(links, fid) ==
    LET k == LinkIndex(links, fid)
    IN IF k = 0 THEN links
       ELSE [i \in 1..(Len(links) - 1) |-> IF i < k THEN links[i] ELSE links[i + 1]]

\* links[fid] = {..., 'timestamp': now}: a key that is there keeps its place.
LinkSet(links, fid, now) ==
    LET k == LinkIndex(links, fid)
    IN IF k = 0 THEN Append(links, FileLink(fid, now))
       ELSE [links EXCEPT ![k] = FileLink(fid, now)]

\* The fid with the newest timestamp, the last of them in dict order.
NewestFid(links) ==
    LET k == CHOOSE i \in 1..Len(links) :
                 /\ \A j \in 1..Len(links) : links[j].timestamp <= links[i].timestamp
                 /\ \A j \in (i + 1)..Len(links) : links[j].timestamp < links[i].timestamp
    IN links[k].fid

\* min(self._file_links.keys(), key=timestamp): the first fid in dict order
\* among those with the least timestamp.
OldestFid(links) ==
    LET k == CHOOSE i \in 1..Len(links) :
                 /\ \A j \in 1..Len(links) : links[i].timestamp <= links[j].timestamp
                 /\ \A j \in 1..(i - 1) : links[j].timestamp > links[i].timestamp
    IN links[k].fid

\* ChatWidget._evict_lru_file_link: the links it leaves.
evict_lru_file_link(links) ==
    IF Len(links) >= FILE_LINKS_MAX
    THEN LinkDel(links, OldestFid(links))
    ELSE links

NoGuiOp == [kind |-> "none", fid |-> 0, before |-> <<>>]

\* The fids an operation of a run names: the first and the last in the dict
\* and the next file's.
GuiFids ==
    {gnext} \cup IF file_links = <<>> THEN {}
                 ELSE {file_links[1].fid, file_links[Len(file_links)].fid}

\* ChatWidget.add_file_notification(message, fid, filename, size_display)
add_file_notification(fid) ==
    /\ gops < MaxGuiOps
    /\ gops' = gops + 1
    /\ file_links' = LinkSet(evict_lru_file_link(file_links), fid, gclock)
    /\ gnext' = IF fid = gnext THEN gnext + 1 ELSE gnext
    /\ glast' = [kind |-> "add", fid |-> fid, before |-> file_links]
    /\ UNCHANGED gclock
    /\ UNCHANGED nonGuiVars

\* ChatWidget._on_anchor_clicked(url) for the url download://fid
on_anchor_clicked(fid) ==
    /\ gops < MaxGuiOps
    /\ gops' = gops + 1
    /\ file_links' = LinkDel(file_links, fid)
    /\ glast' = [kind |-> IF LinkIndex(file_links, fid) # 0 THEN "download"
                          ELSE "expired",
                 fid |-> fid, before |-> file_links]
    /\ UNCHANGED <<gclock, gnext>>
    /\ UNCHANGED nonGuiVars

\* ChatWidget._prune_file_links, run by the cleanup timer.
prune_file_links ==
    /\ gops < MaxGuiOps
    /\ gops' = gops + 1
    /\ file_links' = SelectSeq(file_links,
                          LAMBDA l : ~(gclock - l.timestamp > FILE_LINKS_TTL))
    /\ glast' = [kind |-> "prune", fid |-> 0, before |-> file_links]
    /\ UNCHANGED <<gclock, gnext>>
    /\ UNCHANGED nonGuiVars

\* Time passes in the client.
gui_time_passes(d) ==
    /\ gops < MaxGuiOps
    /\ gops' = gops + 1
    /\ gclock' = gclock + d
    /\ glast' = [kind |-> "time", fid |-> 0, before |-> file_links]
    /\ UNCHANGED <<file_links, gnext>>
    /\ UNCHANGED nonGuiVars

\* ChatWidget.__init__
InitGui ==
    /\ file_links = <<>>
    /\ gclock = 0
    /\ gnext = 1
    /\ gops = 0
    /\ glast = NoGuiOp

\* The widget after k notifications of k files, one a second, none clicked.
InitGuiAfter(k) ==
    /\ file_links = [i \in 1..k |-> FileLink(i, i)]
    /\ gclock = k
    /\ gnext = k + 1
    /\ gops = 0
    /\ glast = NoGuiOp

GuiStarts == {0, FILE_LINKS_MAX - 2}

NextGui ==
    \/ \E fid \in GuiFids : add_file_notification(fid)
    \/ \E fid \in GuiFids : on_anchor_clicked(fid)
    \/ prune_file_links
    \/ \E d \in {1, FILE_LINKS_TTL} : gui_time_passes(d)

(***************************************************************************)
(* The control plane's specification.                                      *)
(***************************************************************************)
InitCtl ==
    /\ next_uid = 1
    /\ clients = <<>>
    /\ participants = <<>>
    /\ chat_history = <<>>
    /\ lockHolder = NoConn
    /\ lockWaiters = <<>>
    /\ running = NoConn
    /\ pc = [c \in Tasks |-> "idle"]
    /\ wait = [c \in Tasks |-> "none"]
    /\ loc = [c \in Tasks |-> L0]
    /\ recv = [c \in Conns |-> {}]
    /\ rlog = [c \in Conns |-> <<>>]
    /\ closed = {}
    /\ broken = {}
    /\ issued = <<>>
    /\ nlines = 0

NextCtl ==
    \/ handle_client_accept
    \/ \E c \in Conns, m \in Lines : ReadLine(c, m)
    \/ \E c \in Conns : ReadEof(c)
    \/ \E c \in Conns : PeerGone(c)
    \/ \E c \in Conns : Malformed(c)
    \/ \E c \in Conns : HandlerReturn(c)
    \/ \E c \in Conns : Resume(c)
    \/ \E c \in Conns : send_message(c)
    \/ \E c \in Conns : broadcast_iter(c)
    \/ \E c \in Conns : broadcast_next(c)
    \/ \E c \in Conns : handle_login(c)
    \/ \E c \in Conns : handle_login_register(c)
    \/ \E c \in Conns : handle_login_snap(c)
    \/ \E c \in Conns : handle_login_joined(c)
    \/ \E c \in Conns : handle_login_list(c)
    \/ \E c \in Conns : handle_heartbeat(c)
    \/ \E c \in Conns : handle_heartbeat_ack(c)
    \/ \E c \in Conns : handle_heartbeat_list(c)
    \/ \E c \in Conns : handle_chat(c)
    \/ \E c \in Conns : handle_chat_append(c)
    \/ \E c \in Conns : handle_unicast(c)
    \/ \E c \in Conns : handle_unicast_check(c)
    \/ \E c \in Conns : handle_unicast_append(c)
    \/ \E c \in Conns : handle_unicast_confirm(c)
    \/ \E c \in Conns : handle_logout(c)
    \/ \E c \in Conns : main_disconnect_client(c)
    \/ \E c \in Conns : disconnect_client_close(c)
    \/ \E c \in Conns : disconnect_client_del(c)
    \/ \E c \in Conns : disconnect_client_part(c)
    \/ \E c \in Conns : disconnect_client_list(c)
    \/ \E c \in Conns : main_disconnect_del(c)

vars == <<ctlVars, fileVars, audioVars, videoVars, screenVars, guiVars>>

Init ==
    InitCtl /\ InitFile /\ InitAudio /\ InitVideo /\ InitScreen /\ InitGui

Next == NextCtl

Spec == Init /\ [][Next]_vars

(***************************************************************************)
(* Connections, logins and logouts alone: the sessions of at most          *)
(* MaxUidConn connections, each of which may log in, log out and close.    *)
(***************************************************************************)
SessionLines == {l \in Lines : l.kind \in {"login", "logout"}}

NextUid ==
    \/ handle_client_accept /\ Len(issued) < MaxUidConn
    \/ \E c \in Conns, m \in SessionLines : ReadLine(c, m)
    \/ \E c \in Conns : ReadEof(c)
    \/ \E c \in Conns : HandlerReturn(c)
    \/ \E c \in Conns : Resume(c)
    \/ \E c \in Conns : send_message(c)
    \/ \E c \in Conns : broadcast_iter(c)
    \/ \E c \in Conns : broadcast_next(c)
    \/ \E c \in Conns : handle_login(c)
    \/ \E c \in Conns : handle_login_register(c)
    \/ \E c \in Conns : handle_login_snap(c)
    \/ \E c \in Conns : handle_login_joined(c)
    \/ \E c \in Conns : handle_login_list(c)
    \/ \E c \in Conns : handle_logout(c)
    \/ \E c \in Conns : main_disconnect_client(c)
    \/ \E c \in Conns : disconnect_client_close(c)
    \/ \E c \in Conns : disconnect_client_del(c)
    \/ \E c \in Conns : disconnect_client_part(c)
    \/ \E c \in Conns : disconnect_client_list(c)
    \/ \E c \in Conns : main_disconnect_del(c)

SpecUid == Init /\ [][NextUid]_vars

(***************************************************************************)
(* Raw control lines: what handle_client makes of the bytes of a line.     *)
(***************************************************************************)
\* A line as sent: its length in bytes with the newline, whether it is
\* valid UTF-8, what json.loads makes of it, and its "type" member.
Raw(size, utf8, json, type) ==
    [size |-> size, utf8 |-> utf8, json |-> json, type |-> type]

KnownTypes == {"login", "heartbeat", "logout"}

RawLines ==
    {Raw(20, TRUE, "object", t) : t \in KnownTypes}
    \cup {Raw(20, TRUE, "object", t) : t \in {"absent", "empty", "number", "bogus"}}
    \cup {Raw(20, TRUE, j, "absent") : j \in {"malformed", "array", "number"}}
    \cup {Raw(20, FALSE, "object", "heartbeat"),
          Raw(MAX_MESSAGE_SIZE + 1, TRUE, "object", "heartbeat")}

\* readline, the size check, decode, json.loads, message.get('type') and
\* the dispatch chain, in the order of the code.
Classify(raw) ==
    IF raw.size - 1 > STREAM_LIMIT THEN "overrun"
    ELSE IF raw.size > MAX_MESSAGE_SIZE THEN "too_large"
    ELSE IF ~raw.utf8 THEN "invalid_utf8"
    ELSE IF raw.json = "malformed" THEN "malformed"
    ELSE IF raw.json # "object" THEN "non_object"
    ELSE IF raw.type \in {"absent", "empty", "number"} THEN "invalid_type"
    ELSE IF raw.type \in KnownTypes THEN raw.type
    ELSE "unknown"

ParseLine(raw) ==
    LET kind == Classify(raw)
    IN Line(kind, IF kind = "login" THEN "alice" ELSE "", 0, "")

\* readline is given a raw line.
ReadRaw(c, raw) == ReadLineUpTo(c, ParseLine(raw), MaxRawLines)

NextRaw ==
    \/ handle_client_accept /\ Len(issued) < MaxRawConn
    \/ \E c \in Conns, raw \in RawLines : ReadRaw(c, raw)
    \/ \E c \in Conns : ReadEof(c)
    \/ \E c \in Conns : Malformed(c)
    \/ \E c \in Conns : HandlerReturn(c)
    \/ \E c \in Conns : Resume(c)
    \/ \E c \in Conns : send_message(c)
    \/ \E c \in Conns : broadcast_iter(c)
    \/ \E c \in Conns : broadcast_next(c)
    \/ \E c \in Conns : handle_login(c)
    \/ \E c \in Conns : handle_login_register(c)
    \/ \E c \in Conns : handle_login_snap(c)
    \/ \E c \in Conns : handle_login_joined(c)
    \/ \E c \in Conns : handle_login_list(c)
    \/ \E c \in Conns : handle_heartbeat(c)
    \/ \E c \in Conns : handle_heartbeat_ack(c)
    \/ \E c \in Conns : handle_heartbeat_list(c)
    \/ \E c \in Conns : handle_logout(c)
    \/ \E c \in Conns : main_disconnect_client(c)
    \/ \E c \in Conns : disconnect_client_close(c)
    \/ \E c \in Conns : disconnect_client_del(c)
    \/ \E c \in Conns : disconnect_client_part(c)
    \/ \E c \in Conns : disconnect_client_list(c)
    \/ \E c \in Conns : main_disconnect_del(c)

SpecRaw == Init /\ [][NextRaw]_vars

(***************************************************************************)
(* One chat line broadcast to up to MaxBcConn connections, one of whose    *)
(* peers may have gone away, while further connections are accepted.       *)
(***************************************************************************)
ChatLines == {l \in Lines : l.kind = "chat"}

handle_client_accept_bc == handle_client_accept_upto(MaxBcConn)

ReadChat(c, m) == ReadLineUpTo(c, m, MaxBcLines)

NextBroadcast ==
    \/ handle_client_accept_bc
    \/ \E c \in Conns, m \in ChatLines : ReadChat(c, m)
    \/ \E c \in Conns : PeerGone(c)
    \/ \E c \in Conns : HandlerReturn(c)
    \/ \E c \in Conns : Resume(c)
    \/ \E c \in Conns : broadcast_iter(c)
    \/ \E c \in Conns : broadcast_next(c)
    \/ \E c \in Conns : handle_chat(c)
    \/ \E c \in Conns : handle_chat_append(c)

SpecBroadcast == Init /\ [][NextBroadcast]_vars

(***************************************************************************)
(* Leaves: clients that log in, offer a file and then log out or close     *)
(* the connection, within TRANSFER_TIMEOUT of the offer.                   *)
(***************************************************************************)
LeaveLines ==
    SessionLines
    \cup {l \in OfferLines : l.fid = "f1" /\ Len(l.filename) = 1 /\ l.size = MaxSize}

handle_client_accept_leave == handle_client_accept_upto(MaxLeaveConn)

ReadLeave(c, m) == ReadLineUpTo(c, m, MaxLeaveLines)

NextLeave ==
    \/ handle_client_accept_leave
    \/ \E c \in Conns, m \in LeaveLines : ReadLeave(c, m)
    \/ \E c \in Conns : ReadEof(c)
    \/ \E c \in Conns : HandlerReturn(c)
    \/ \E c \in Conns : Resume(c)
    \/ \E c \in Conns : send_message(c)
    \/ \E c \in Conns : broadcast_iter(c)
    \/ \E c \in Conns : broadcast_next(c)
    \/ \E c \in Conns : handle_login(c)
    \/ \E c \in Conns : handle_login_register(c)
    \/ \E c \in Conns : handle_login_snap(c)
    \/ \E c \in Conns : handle_login_joined(c)
    \/ \E c \in Conns : handle_login_list(c)
    \/ \E c \in Conns : handle_logout(c)
    \/ \E c \in Conns : main_disconnect_client(c)
    \/ \E c \in Conns : disconnect_client_close(c)
    \/ \E c \in Conns : disconnect_client_del(c)
    \/ \E c \in Conns : disconnect_client_part(c)
    \/ \E c \in Conns : disconnect_client_list(c)
    \/ \E c \in Conns : main_disconnect_del(c)
    \/ \E c \in Conns : file_send_message(c)
    \/ \E c \in Conns : file_send_message_done(c)
    \/ \E c \in Conns : handle_file_offer(c)
    \/ \E c \in Conns : handle_file_offer_listen(c)
    \/ \E c \in Conns : handle_file_offer_reply(c)
    \/ \E c \in Conns : create_cleanup_server(c)

SpecLeave == Init /\ [][NextLeave]_vars

(***************************************************************************)
(* Logins and logouts while further connections are accepted: the peers of *)
(* the first LeaverConns connections log in and leave, the others listen.  *)
(***************************************************************************)
LeaverConns == 1

handle_client_accept_logout == handle_client_accept_upto(MaxLogoutConn)

ReadSession(c, m) == ReadLineUpTo(c, m, MaxLogoutLines)

NextLogout ==
    \/ handle_client_accept_logout
    \/ \E c \in 1..LeaverConns, m \in SessionLines : ReadSession(c, m)
    \/ \E c \in 1..LeaverConns : ReadEof(c)
    \/ \E c \in Conns : HandlerReturn(c)
    \/ \E c \in Conns : Resume(c)
    \/ \E c \in Conns : send_message(c)
    \/ \E c \in Conns : broadcast_iter(c)
    \/ \E c \in Conns : broadcast_next(c)
    \/ \E c \in Conns : handle_login(c)
    \/ \E c \in Conns : handle_login_register(c)
    \/ \E c \in Conns : handle_login_snap(c)
    \/ \E c \in Conns : handle_login_joined(c)
    \/ \E c \in Conns : handle_login_list(c)
    \/ \E c \in Conns : handle_logout(c)
    \/ \E c \in Conns : main_disconnect_client(c)
    \/ \E c \in Conns : disconnect_client_close(c)
    \/ \E c \in Conns : disconnect_client_del(c)
    \/ \E c \in Conns : disconnect_client_part(c)
    \/ \E c \in Conns : disconnect_client_list(c)
    \/ \E c \in Conns : main_disconnect_del(c)

SpecLogout == Init /\ [][NextLogout]_vars

(***************************************************************************)
(* Chats: connected clients send chat and broadcast lines at any time,     *)
(* also while the line of another is being handled.                        *)
(***************************************************************************)
PostLines == {Line(k, "", 0, t) : k \in {"chat", "broadcast"}, t \in Texts}

handle_client_accept_chat == handle_client_accept_upto(MaxChatConn)

ReadPostLine(c, m) == ReadLineUpTo(c, m, MaxChatLines)

NextChat ==
    \/ handle_client_accept_chat
    \/ \E c \in Conns, m \in PostLines : ReadPostLine(c, m)
    \/ \E c \in Conns : HandlerReturn(c)
    \/ \E c \in Conns : Resume(c)
    \/ \E c \in Conns : broadcast_iter(c)
    \/ \E c \in Conns : broadcast_next(c)
    \/ \E c \in Conns : handle_chat(c)
    \/ \E c \in Conns : handle_chat_append(c)

SpecChat == Init /\ [][NextChat]_vars

(***************************************************************************)
(* Unicasts: clients log in, send unicast messages to uid 1 and ask for    *)
(* the history.                                                            *)
(***************************************************************************)
UniLines ==
    {l \in Lines : l.kind = "login" \/ (l.kind = "unicast" /\ l.target = 1)}
    \cup {Line("get_history", "", 0, "")}

handle_client_accept_uni == handle_client_accept_upto(MaxUniConn)

ReadUni(c, m) == ReadLineUpTo(c, m, MaxUniLines)

NextUnicast ==
    \/ handle_client_accept_uni
    \/ \E c \in Conns, m \in UniLines : ReadUni(c, m)
    \/ \E c \in Conns : HandlerReturn(c)
    \/ \E c \in Conns : Resume(c)
    \/ \E c \in Conns : send_message(c)
    \/ \E c \in Conns : broadcast_iter(c)
    \/ \E c \in Conns : broadcast_next(c)
    \/ \E c \in Conns : handle_login(c)
    \/ \E c \in Conns : handle_login_register(c)
    \/ \E c \in Conns : handle_login_snap(c)
    \/ \E c \in Conns : handle_login_joined(c)
    \/ \E c \in Conns : handle_login_list(c)
    \/ \E c \in Conns : handle_unicast(c)
    \/ \E c \in Conns : handle_unicast_check(c)
    \/ \E c \in Conns : handle_unicast_append(c)
    \/ \E c \in Conns : handle_unicast_confirm(c)
    \/ \E c \in Conns : handle_get_history(c)
    \/ \E c \in Conns : handle_get_history_copy(c)

SpecUnicast == Init /\ [][NextUnicast]_vars

(***************************************************************************)
(* The history: alice, logged in with uid 1, sends chat, broadcast and     *)
(* unicast messages in turn, the k-th with text k, each when the one       *)
(* before is dealt with, and asks for the history after some of them. A    *)
(* run starts after her login, or after her first MAX_CHAT_HISTORY - 2     *)
(* messages.                                                               *)
(***************************************************************************)
HistoryLine(k) ==
    CASE k % 3 = 1 -> Line("chat", "", 0, ToString(k))
      [] k % 3 = 2 -> Line("broadcast", "", 0, ToString(k))
      [] OTHER -> Line("unicast", "", 1, ToString(k))

\* The record the handlers append for the k-th message of uid 1, alice.
HistoryRecord(k) ==
    LET l == HistoryLine(k)
    IN Out(l.kind, 1, "alice", l.target, {}, l.text)

\* The last n of the first total records, in append order.
LastRecords(total, n) == [i \in 1..n |-> HistoryRecord(total - n + i)]

HistoryStarts == {0, MAX_CHAT_HISTORY - 2}

\* The server after alice's login and her first k messages.
InitHistoryCtl(k) ==
    /\ next_uid = 2
    /\ clients = DictSet(<<>>, 1, 1)
    /\ participants = DictSet(<<>>, 1, "alice")
    /\ chat_history = LastRecords(k, Min(k, MAX_CHAT_HISTORY))
    /\ lockHolder = NoConn
    /\ lockWaiters = <<>>
    /\ running = NoConn
    /\ pc = [c \in Tasks |-> IF c = 1 THEN "readline" ELSE "idle"]
    /\ wait = [c \in Tasks |-> IF c = 1 THEN "readline" ELSE "none"]
    /\ loc = [c \in Tasks |-> IF c = 1 THEN [L0 EXCEPT !.uid = 1] ELSE L0]
    /\ recv = [c \in Conns |->
                 IF c # 1 THEN {}
                 ELSE {Out("login_success", 1, "alice", 0, {}, ""),
                       Out("participant_list", 0, "", 0, {<<1, "alice">>}, "")}
                      \cup {HistoryRecord(i) : i \in 1..k}
                      \cup IF k >= 3
                           THEN {Out("unicast_sent", 0, "alice", 1, {}, "")}
                           ELSE {}]
    /\ rlog = [c \in Conns |->
                 IF c # 1 THEN <<>>
                 ELSE SelectSeq(LastRecords(k, k),
                                LAMBDA m : m.type \in {"chat", "broadcast"})]
    /\ closed = {}
    /\ broken = {}
    /\ issued = <<1>>
    /\ nlines = k + 1

InitHistory ==
    /\ \E k \in HistoryStarts : InitHistoryCtl(k)
    /\ InitFile /\ InitAudio /\ InitVideo /\ InitScreen /\ InitGui

HistoryAsked == \E c \in Conns : \E m \in recv[c] : m.type = "history"

ReadPost(c) ==
    /\ AtRest
    /\ ~HistoryAsked
    /\ ReadLineUpTo(c, HistoryLine(nlines), MAX_CHAT_HISTORY + MaxHistoryPosts)

ReadGetHistory(c) ==
    /\ AtRest
    /\ ~HistoryAsked
    /\ ReadLineUpTo(c, Line("get_history", "", 0, ""),
                    MAX_CHAT_HISTORY + MaxHistoryPosts + 1)

NextHistory ==
    \/ \E c \in Conns : ReadPost(c)
    \/ \E c \in Conns : ReadGetHistory(c)
    \/ \E c \in Conns : HandlerReturn(c)
    \/ \E c \in Conns : Resume(c)
    \/ \E c \in Conns : send_message(c)
    \/ \E c \in Conns : broadcast_iter(c)
    \/ \E c \in Conns : broadcast_next(c)
    \/ \E c \in Conns : handle_chat(c)
    \/ \E c \in Conns : handle_chat_append(c)
    \/ \E c \in Conns : handle_unicast(c)
    \/ \E c \in Conns : handle_unicast_check(c)
    \/ \E c \in Conns : handle_unicast_append(c)
    \/ \E c \in Conns : handle_unicast_confirm(c)
    \/ \E c \in Conns : handle_get_history(c)
    \/ \E c \in Conns : handle_get_history_copy(c)

SpecHistory == InitHistory /\ [][NextHistory]_vars

InitGuiRun ==
    /\ InitCtl /\ InitFile /\ InitAudio /\ InitVideo /\ InitScreen
    /\ \E k \in GuiStarts : InitGuiAfter(k)

SpecGui == InitGuiRun /\ [][NextGui]_vars

SpecFile == Init /\ [][NextFile]_vars

SpecFileSeq == Init /\ [][NextFileSeq]_vars

SpecAudio == Init /\ [][NextAudio]_vars

SpecGap == Init /\ [][NextGap]_vars

SpecMix == Init /\ [][NextMix]_vars

SpecVideo == Init /\ [][NextVideo]_vars

SpecVideoFlood == Init /\ [][NextVideoFlood]_vars

\* cleanup_task sweeps once a second for as long as the server runs, and a
\* slot's time is never set again: in the end a sweep comes that finds every
\* slot that is open older than CHUNK_TIMEOUT.
LateSweep == video_cleanup_task(MaxVideoPackets, 0)

\* The chunks of the senders' frames, each sender with one receive port.
LiveDatagrams ==
    {d \in VideoDatagrams :
        /\ d.kind = "chunk"
        /\ d.receive_port = 6000 + d.uid
        /\ d \notin OddDatagrams \cup EmptyDatagrams}

NextVideoLive ==
    \/ \E d \in LiveDatagrams : video_handle_packet(d)
    \/ \E ts \in 0..MaxVideoPackets : video_cleanup_task(ts, 0)
    \/ broadcast_worker
    \/ broadcast_worker_sent

SpecVideoLive == Init /\ [][NextVideoLive]_vars /\ WF_vars(LateSweep)

\* The frames of ClientUid: every chunk datagram of _send_frame arrives
\* once, the chunks of a frame in any order and after those of the frame
\* before, and no slot times out.
ClientKeys == {k \in FrameKeys : k[1] = ClientUid}

NextClient ==
    \/ \E k \in ClientKeys : \E i \in 1..Len(VideoFrames[k]) :
          /\ varrived[k][i] = 0
          /\ \A j \in ClientKeys : j[2] < k[2] => AllArrived(j)
          /\ handle_packet_upto(ChunkDatagram(k, i - 1, 6000 + ClientUid),
                                MaxClientPackets)
    \/ broadcast_worker

SpecClient == Init /\ [][NextClient]_vars

SpecScreen == Init /\ [][NextScreen]_vars

SpecScreenPair == Init /\ [][NextScreenPair]_vars

(***************************************************************************)
(* The claims.                                                             *)
(***************************************************************************)
\* C1: the uids the server issues are pairwise distinct: no uid is handed
\* to two connections, and none is issued again after its owner left.
C1_UidsPairwiseDistinct ==
    \A i, j \in 1..Len(issued) : i # j => issued[i] # issued[j]

\* A connection has ended (its uid left the tables) and another connection
\* holds a uid.
C1_Witness ==
    /\ Len(issued) >= 2
    /\ \E i \in 1..Len(issued) : pc[i] = "done"
    /\ \E j \in 1..Len(issued) : pc[j] = "readline" /\ loc[j].uid \in DOMAIN participants

\* No handler is in progress: every task is unborn, at readline or ended.
Quiescent ==
    /\ running = NoConn
    /\ \A c \in Conns : pc[c] \in {"idle", "readline", "done"}

\* The participant lists connection c has been sent.
ListsReceived(c) == {m.members : m \in {x \in recv[c] : x.type = "participant_list"}}

\* C2: once the login and logout handlers have completed, every registered
\* client that is still connected has received a participant-list whose
\* members are exactly the registered users.
C2_ParticipantListConvergence ==
    Quiescent =>
        \A u \in DOMAIN participants :
            (u \in DOMAIN clients /\ clients[u] \notin broken \cup closed)
                => Snapshot(participants) \in ListsReceived(clients[u])

\* Task c is in handle_unicast for a target that is not registered.
UnknownTargetUnicast(c) == loc[c].msg.kind = "unicast" /\ loc[c].ret = "uni_err_ret"

\* Task c waits for a lock that it holds itself: nothing ever wakes it.
SelfBlocked(c) == wait[c] = "lock" /\ lockHolder = c

\* C3: a unicast to an unregistered uid yields the error "User with
\* uid=<target> not found" to the sender and the handler returns: whenever
\* the handler is not running, the sender has been sent that error, and the
\* handler is not blocked for ever.
C3_UnknownTargetYieldsError ==
    \A c \in Conns :
        (UnknownTargetUnicast(c) /\ running # c) =>
            /\ loc[c].out \in recv[c]
            /\ ~SelfBlocked(c)

\* C4: no control message of one client stops the server from serving the
\* others: a chat of another client never waits for the registry/chat lock
\* while the lock's holder is blocked for ever.
C4_ChatStillServed ==
    \A c \in Conns :
        (loc[c].msg.kind = "chat" /\ wait[c] = "lock")
            => ~(lockHolder # NoConn /\ lockHolder # c /\ SelfBlocked(lockHolder))

\* The bytes of the file a path leads to; none when there is no such file.
OnDisk(path) == IF Exists(path) THEN inodes[fs[FsKey(path)]] ELSE <<>>

\* Task t is about to write its message to the next client of its broadcast.
AboutToWrite(t) ==
    /\ running = t
    /\ pc[t] = "bc_next"
    /\ Cardinality(DOMAIN clients) = loc[t].used
    /\ loc[t].it # <<>>
    /\ Head(loc[t].it) # loc[t].excl
    /\ clients[Head(loc[t].it)] \notin broken

\* C5: file-available is never broadcast for a file whose on-disk size is
\* less than the offered size: whenever a file-available is written to a
\* client, the file at the recorded path exists and holds exactly the
\* offered number of bytes.
C5_AdvertisedFileIsComplete ==
    \A t \in XferTasks :
        (AboutToWrite(t) /\ loc[t].out.type = "file_available") =>
            /\ Exists(files[loc[t].out.fid].path)
            /\ Len(OnDisk(files[loc[t].out.fid].path)) = loc[t].sess.size

\* C6: when an upload of B bytes under fid succeeds, the file on disk holds
\* B bytes; and a completed download of fid has streamed exactly the `size`
\* bytes that file-download-port announced, and they are the bytes the
\* uploader sent for that fid.
C6_DownloadStreamsUpload ==
    /\ \A t \in XferTasks :
           pc[t] = "fu_register" => Len(OnDisk(loc[t].path)) = loc[t].got
    /\ \A t \in XferTasks :
           loc[t].complete =>
               /\ Len(loc[t].stream) = loc[t].sess.size
               /\ loc[t].stream = uploaded[loc[t].sess.fid]

\* os.path.basename: the last component of a file name.
Basename(name) == IF name = <<>> THEN <<>> ELSE <<name[Len(name)]>>

\* A path leads to a file directly inside the upload directory.
DirectlyInside(path) ==
    /\ Len(FsKey(path)) = Len(upload_dir) + 1
    /\ SubSeq(FsKey(path), 1, Len(upload_dir)) = upload_dir

\* C7: the path the server writes to (and deletes) for an offer is
\* upload_dir joined with the basename of the offered filename, directly
\* inside the upload directory; no file is made outside it.
C7_WritesStayInUploadDir ==
    /\ \A t \in XferTasks :
           loc[t].path # <<>> =>
               /\ loc[t].path = PathJoin(upload_dir, Basename(loc[t].sess.filename))
               /\ DirectlyInside(loc[t].path)
    /\ \A p \in DOMAIN fs : DirectlyInside(p)

\* C8: a transfer session is bound to one incoming connection: no two
\* connections are handled on one ephemeral port, and once a connection on
\* a port has completed or failed the port has no listener.
C8_OneConnectionPerSession ==
    /\ \A t1, t2 \in Accepted :
           t1 # t2 => loc[t1].sess.port # loc[t2].sess.port
    /\ \A t \in XferTasks :
           pc[t] = "done" => loc[t].sess.port \notin DOMAIN listeners

\* Every datagram of u came with a seq ahead of the one before it, and u was
\* never evicted in between.
IncreasingSender(u) ==
    sender[u].sent > 0 /\ sender[u].increasing /\ ~sender[u].evicted

\* C9: for an audio sender whose datagrams arrive with strictly increasing
\* seq (consecutive ones and the 2^32 wrap included), no datagram is
\* classified as a duplicate or as old, each one that is on time and decodes
\* has its frame queued for mixing, received_packets counts every datagram,
\* and dropped_packets counts only the skipped sequence numbers (and the
\* datagrams the lateness rule dropped).
C9_IncreasingSeqAllAccepted ==
    /\ last.ahead => last.verdict \in {"queued", "late", "undecodable"}
    /\ \A u \in AudioUids :
          IncreasingSender(u) /\ u \in DOMAIN aclients =>
              /\ aclients[u].received_packets = sender[u].sent
              /\ aclients[u].dropped_packets =
                     sender[u].skipped + sender[u].late

\* The last datagram handled came with a timestamp more than MAX_LATE_MS
\* behind the timestamp stored for its uid.
LastIsBehind ==
    /\ last.verdict \notin {"none", "short"}
    /\ last.stored_before # -1
    /\ last.stored_before - last.timestamp > MAX_LATE_MS

\* C10: a datagram whose timestamp is more than MAX_LATE_MS (250 ms) behind
\* the timestamp stored for its uid increments dropped_packets and is not
\* added to the mix queue; a datagram at most MAX_LATE_MS behind is not
\* dropped for lateness; and the stored timestamp of a uid never decreases.
C10_LatePacketsDropped ==
    /\ LastIsBehind => last.dropped_by >= 1 /\ last.verdict # "queued"
    /\ ~LastIsBehind => last.verdict # "late"
    /\ last.verdict \notin {"none", "short"} =>
          last.stored_after >= last.stored_before

\* The frames that are queued, held by the running tick, or mixed already.
Accounted == mixed \o FrameIds(frames_to_mix) \o FrameIds(mix_queue)

ChunksOf(k) ==
    [i \in 1..Len(VideoFrames[k]) |->
        ChunkPayload(k[1], k[2], i - 1, VideoFrames[k][i])]

\* Frame k waits in the broadcast queue or the worker has taken it.
InFanOut(k) ==
    \/ \E i \in 1..Len(broadcast_queue) :
          <<broadcast_queue[i].uid, broadcast_queue[i].frame_id>> = k
    \/ \E i \in 1..Len(fanned) : fanned[i] = k

\* C12: when the K chunk datagrams of a frame have all passed the header
\* validation and arrived, in any order, within the chunk timeout, exactly
\* one frame has been assembled from them, its bytes are the K payloads
\* joined in chunk-idx order, and it is queued for or taken by the fan-out.
C12_FrameReassembled ==
    \A k \in FrameKeys :
        AllArrived(k) => assembled[k] = <<ChunksOf(k)>> /\ InFanOut(k)

C14_SlotCaps ==
    /\ \A u \in DOMAIN chunk_buffers :
          /\ Cardinality(DOMAIN chunk_buffers[u]) <= MAX_FRAMES_PER_CLIENT
          /\ \A f \in DOMAIN chunk_buffers[u] :
                chunk_buffers[u][f].total * chunk_buffers[u][f].chunk_size
                    <= MAX_FRAME_SIZE
    /\ (/\ vlast.verdict \notin {"none", "invalid"}
        /\ vlast.fresh
        /\ (vlast.open >= MAX_FRAMES_PER_CLIENT \/ vlast.size > MAX_FRAME_SIZE))
          => /\ vlast.verdict \in {"limit", "oversize"}
             /\ vlast.slots_after = vlast.slots_before

\* A first chunk has come to a uid that holds MAX_FRAMES_PER_CLIENT slots.
C14_Witness ==
    /\ vlast.verdict = "limit"
    /\ vlast.open = MAX_FRAMES_PER_CLIENT

\* C15: a registration datagram alone puts its uid into the client table
\* with the receive port it names.
C15_RegistrationRegisters ==
    vlast.kind = "register" => vlast.registered

\* Message m has been written to the control connection of uid c.
ScreenReceived(c, m) == \E i \in 1..Len(srecv[c]) : srecv[c][i] = m

\* create_screen_share_ports_message for presentation o.
PortsMessage(o) ==
    ScreenOut("screen_share_ports", 0, "", "", pobjs[o].presenter_port,
              pobjs[o].viewer_port, "")

\* create_present_start_broadcast_message for presentation o.
PresentStartBroadcast(o) ==
    ScreenOut("present_start", pobjs[o].uid, pobjs[o].username, pobjs[o].topic,
              0, pobjs[o].viewer_port, "")

\* create_present_stop_broadcast_message for uid u.
PresentStopBroadcast(u) ==
    ScreenOut("present_stop", u, screen_get_username(u), "", 0, 0, "")

\* Do the servers of presentation o listen on its two ports?
Listening(o, role) ==
    \E port \in DOMAIN servers :
        /\ servers[port] = [obj |-> o, role |-> role]
        /\ port = IF role = "presenter" THEN pobjs[o].presenter_port
                  ELSE pobjs[o].viewer_port

C17_PresentStartAnnounced ==
    \A u \in ScreenUids :
        LET r == slast[u] IN
        (/\ stasks[HandlerTask(u)].pc = "idle"
         /\ r.kind = "present_start"
         /\ r.fresh
         /\ pobjs[r.obj].presenter_writer = 0)
        => /\ ScreenReceived(u, PortsMessage(r.obj))
           /\ \A c \in ScreenUids : ScreenReceived(c, PresentStartBroadcast(r.obj))
           /\ u \in DOMAIN presentations
           /\ presentations[u] = r.obj
           /\ Listening(r.obj, "presenter")
           /\ Listening(r.obj, "viewer")

\* C18: when the handler of a present_stop of uid U that found U's
\* presentation registered, with a presenter connection, has returned,
\* every viewer connection of the presentation is closed, both ports are
\* free, the record is removed and every client has been sent the
\* present_stop broadcast.
C18_PresentStopTearsDown ==
    \A u \in ScreenUids :
        LET r == slast[u] IN
        (/\ stasks[HandlerTask(u)].pc = "idle"
         /\ r.kind = "present_stop"
         /\ r.active
         /\ r.relaying)
        => /\ \A v \in pobjs[r.obj].viewers : vconns[v].closed
           /\ ~Listening(r.obj, "presenter")
           /\ ~Listening(r.obj, "viewer")
           /\ u \notin DOMAIN presentations
           /\ \A c \in ScreenUids : ScreenReceived(c, PresentStopBroadcast(u))

\* C19: when the relay task of a presenter connection that read EOF has
\* ended, both ports of its presentation are free and every client has
\* been sent the present_stop broadcast of its uid.
C19_PresenterEofStops ==
    \A p \in PresenterConns :
        (/\ stasks[RelayTask(p)].how = "eof"
         /\ TaskDone(RelayTask(p)))
        => /\ ~Listening(pconns[p].obj, "presenter")
           /\ ~Listening(pconns[p].obj, "viewer")
           /\ \A c \in ScreenUids :
                 ScreenReceived(c, PresentStopBroadcast(ObjUid(pconns[p].obj)))

\* The kinds of line that violate the protocol: malformed JSON, JSON that
\* is no object, invalid UTF-8, a line over the size limit, a missing or
\* unknown type.
ViolationKinds ==
    {"malformed", "non_object", "invalid_utf8", "overrun", "too_large",
     "invalid_type", "unknown"}

\* C20: when handle_client is through with a control line that violates
\* the protocol, an error message has been sent to the connection that
\* sent the line.
C20_ViolationsAnswered ==
    \A c \in Conns :
        (/\ loc[c].msg.kind \in ViolationKinds
         /\ pc[c] \in {"ret_loop", "finally"})
        => \E m \in recv[c] : m.type = "error"

\* C21: a protocol-violating line never ends the control connection: while
\* and after handle_client deals with it, the task is not on its way out of
\* the read loop, the writer is open and the uid stays in the client table.
C21_ViolationKeepsConnection ==
    \A c \in Conns :
        loc[c].msg.kind \in ViolationKinds
        => /\ pc[c] # "finally"
           /\ c \notin closed
           /\ loc[c].uid \in DOMAIN clients

\* The uids a broadcast of task c has had its turn with: those in the
\* table when the iteration began that are no longer ahead of the iterator.
Attempted(c) == (1..loc[c].used) \ {loc[c].it[i] : i \in 1..Len(loc[c].it)}

\* C22: when the broadcast of a chat message in which the write to a peer
\* failed is over, the message has been written to every other peer that
\* was in the client table when the broadcast began.
C22_BroadcastGoesOn ==
    \A c \in Conns :
        (/\ pc[c] = "ret_loop"
         /\ loc[c].msg.kind = "chat"
         /\ \E u \in Attempted(c) : clients[u] \in broken)
        => \A u \in 1..loc[c].used :
               clients[u] \notin broken => loc[c].out \in recv[clients[u]]

\* C23: when the task of a control connection has ended (EOF, I/O error or
\* logout, then disconnect_client), no transfer listener opened for its uid
\* is still listening and no transfer session of its uid is pending.
C23_LeaveCascades ==
    \A c \in Conns :
        pc[c] = "done"
        => /\ \A p \in DOMAIN listeners : listeners[p].sess.uid # loc[c].uid
           /\ \A p \in DOMAIN upload_sessions :
                 upload_sessions[p].uid # loc[c].uid

\* C24: no task is suspended in the drain of a network write while it
\* holds the lock of the chat server, the file server or the screen server.
C24_NoLockAcrossSend ==
    /\ \A c \in Tasks :
          ~(lockHolder = c /\ wait[c] = "io" /\ pc[c] = "bc_next")
    /\ \A c \in Tasks :
          ~(flockHolder = c /\ wait[c] = "io" /\ pc[c] = "fsm_drained")
    /\ \A t \in ScreenTasks :
          ~(slock.holder = t /\ stasks[t].wait = "io"
            /\ stasks[t].pc = "sm_drained")

\* The number of records appended when the history was asked for: the
\* lines read, less the login and the get_history line.
Appended == nlines - 2

\* C25: every history reply holds at most MAX_CHAT_HISTORY records, which
\* are the most recent min(total, MAX_CHAT_HISTORY) appended records in
\* append order, and its count is the number of records it holds.
C25_HistoryReply ==
    \A c \in Conns :
        \A m \in recv[c] :
            m.type = "history"
            => /\ Len(m.messages) <= MAX_CHAT_HISTORY
               /\ m.messages = LastRecords(Appended, Min(Appended, MAX_CHAT_HISTORY))
               /\ m.count = Len(m.messages)

\* A history reply sent after more than MAX_CHAT_HISTORY records had been
\* appended.
C25_Witness ==
    \E c \in Conns :
        \E m \in recv[c] :
            /\ m.type = "history"
            /\ Appended > MAX_CHAT_HISTORY
            /\ m.count = MAX_CHAT_HISTORY

\* The timestamps of the links in a dict.
Stamps(links) == {links[i].timestamp : i \in 1..Len(links)}

\* C26: the chat widget never stores more than FILE_LINKS_MAX file links;
\* and a notification added at capacity evicted an entry whose timestamp
\* was the oldest and left the new entry stored.
C26_FileLinksBounded ==
    /\ Len(file_links) <= FILE_LINKS_MAX
    /\ (glast.kind = "add" /\ Len(glast.before) >= FILE_LINKS_MAX)
       => LET gone == {l \in {glast.before[i] : i \in 1..Len(glast.before)} :
                          LinkIndex(file_links, l.fid) = 0
                          \/ l.fid = glast.fid}
          IN /\ LinkIndex(file_links, glast.fid) # 0
             /\ \E l \in gone : \A t \in Stamps(glast.before) : l.timestamp <= t
             /\ \A l \in gone :
                   l.fid = glast.fid
                   \/ \A t \in Stamps(glast.before) : l.timestamp <= t

\* A notification of a new file was added when FILE_LINKS_MAX links were
\* stored, one of which had been renewed.
C26_Witness ==
    /\ glast.kind = "add"
    /\ Len(glast.before) = FILE_LINKS_MAX
    /\ LinkIndex(glast.before, glast.fid) = 0
    /\ glast.before[1].timestamp > glast.before[2].timestamp

AlreadyActive == "You already have an active presentation"

\* The handler of uid u runs the rejection branch of handle_present_start.
Rejecting(u) ==
    LET t == HandlerTask(u) IN
    /\ srunning = t
    /\ \/ stasks[t].pc = "present_start" /\ u \in DOMAIN presentations
       \/ /\ stasks[t].pc \in {"sm_locked", "sm_drained"}
          /\ stasks[t].out.text = AlreadyActive

\* The presentations of uid u that are active: self.presentations holds
\* them.
ActiveObjs(u) ==
    {o \in 1..Len(pobjs) :
        /\ pobjs[o].uid = u
        /\ u \in DOMAIN presentations
        /\ presentations[u] = o}

RejectedStart(u) ==
    /\ stasks[HandlerTask(u)].pc = "ret_loop"
    /\ slast[u].kind = "present_start"
    /\ ~slast[u].fresh

C27_EveryState ==
    \A u \in ScreenUids :
       /\ Cardinality(ActiveObjs(u)) <= 1
       /\ RejectedStart(u)
          => /\ srecv[u] # <<>>
             /\ srecv[u][Len(srecv[u])].type = "error"
             /\ srecv[u][Len(srecv[u])].text = AlreadyActive

C27_EveryStep ==
    \A u \in ScreenUids :
       Rejecting(u)
       => /\ UNCHANGED <<presentations, pobjs, screen_next_port, servers,
                        pconns, vconns>>
          /\ \A w \in ScreenUids \ {u} : srecv'[w] = srecv[w]
          /\ \/ srecv'[u] = srecv[u]
             \/ /\ Len(srecv'[u]) = Len(srecv[u]) + 1
                /\ SubSeq(srecv'[u], 1, Len(srecv[u])) = srecv[u]
                /\ srecv'[u][Len(srecv'[u])].text = AlreadyActive

\* C27: a present_start of a uid that has a registered presentation is
\* answered with an error to that uid, and no step of its handler changes
\* the presentations, their ports, viewers, relays and servers, the port
\* counter, or what another client is sent; and in every state a uid has
\* at most one active presentation.
C27_DoubleStartRejected == []C27_EveryState /\ [][C27_EveryStep]_vars

\* A present_start was rejected while the presentation is registered.
C27_Witness ==
    \E u \in ScreenUids : RejectedStart(u) /\ u \in DOMAIN presentations

\* The upload connection t ended before the offered size had come:
\* handle_file_upload has returned to accept_upload.
EndedShort(t) ==
    /\ pc[t] \in {"fu_session", "fu_session_del"}
    /\ loc[t].got < loc[t].sess.size

\* The file connection t opened has no directory entry.
PartialDeleted(t) == \A k \in DOMAIN fs : fs[k] # loc[t].ino

\* No client has been sent file_available for fid.
NotAdvertised(fid) ==
    \A c \in Conns : \A m \in recv[c] :
        ~(m.type = "file_available" /\ m.fid = fid)

\* C28: once an upload connection has ended before `size` bytes were
\* received, the partial file is deleted, the fid is not in the file table
\* and no file_available for the fid has been sent.
C28_ShortReadAborts ==
    \A t \in XferTasks :
        EndedShort(t) =>
            /\ PartialDeleted(t)
            /\ loc[t].sess.fid \notin DOMAIN files
            /\ NotAdvertised(loc[t].sess.fid)

\* The presenter connections accepted for the presentation of connection
\* p before p was.
EarlierPresenters(p) ==
    {q \in PresenterConns : q < p /\ pconns[q].obj = pconns[p].obj}

\* C29: a presentation takes one connection on its presenter port: no
\* second connection is given a relay, and no frame of a second connection
\* is written to a viewer.
C29_OnePresenterConnection ==
    /\ \A p \in PresenterConns :
           pconns[p].obj # 0 => EarlierPresenters(p) = {}
    /\ \A v \in ViewerConns :
           \A i \in 1..Len(vconns[v].got) :
               EarlierPresenters(vconns[v].got[i][1]) = {}

\* The teardown of presentation o has completed: _cleanup_presentation
\* has deleted it from self.presentations.
TornDown(o) ==
    \/ pobjs[o].uid \notin DOMAIN presentations
    \/ presentations[pobjs[o].uid] # o

\* C30: once the teardown of a presentation has completed, every viewer
\* connection that its viewer port accepted is closed.
C30_NoViewerOutlivesTeardown ==
    \A v \in ViewerConns :
        (vconns[v].obj # 0 /\ TornDown(vconns[v].obj)) => vconns[v].closed

\* The header of datagram d is complete and within the documented bounds.
HeaderInBounds(d) ==
    /\ d.length >= CHUNK_HEADER_SIZE
    /\ d.length - CHUNK_HEADER_SIZE = d.chunk_size
    /\ 0 < d.total_chunks /\ d.total_chunks <= MAX_CHUNKS
    /\ 0 <= d.chunk_idx /\ d.chunk_idx < d.total_chunks
    /\ 0 < d.chunk_size /\ d.chunk_size <= MAX_CHUNK_SIZE

C31_Validated ==
    vlast.verdict # "none"
        => (vlast.verdict # "invalid" <=> HeaderInBounds(vlast.dgram))

C31_DroppedLeavesState ==
    (vpackets' # vpackets /\ ~HeaderInBounds(vlast'.dgram))
        => UNCHANGED <<vclients, vobjs, chunk_buffers, broadcast_queue>>

\* C31: a datagram passes the header validation exactly when its payload
\* is chunk_size long, 0 < total_chunks <= MAX_CHUNKS, 0 <= chunk_idx <
\* total_chunks and 0 < chunk_size <= MAX_CHUNK_SIZE; and a datagram that
\* does not meet these changes neither the client table nor a slot.
C31_HeaderValidation == []C31_Validated /\ [][C31_DroppedLeavesState]_vars

\* 2^31 as a 32-bit value.
Pow31 == <<Limb \div 2, 0>>

\* 1 < d <= 2^31
ForwardGap(d) ==
    /\ d \notin {<<0, 0>>, <<0, 1>>}
    /\ Leq32(d, HALF32) \/ d = Pow31

\* C32: a datagram of a known sender whose seq is d past the expected one,
\* 1 < d <= 2^31, passes the sequence check, adds d - 1 to dropped_packets
\* and leaves expected_sequence = seq + 1; one with d > 2^31, and no other,
\* is dropped as backward.
C32_ForwardGapAccepted ==
    last.known =>
        /\ ForwardGap(last.diff) =>
              /\ last.verdict = "queued"
              /\ last.dropped_by = Int32(Sub32(last.diff, <<0, 1>>))
              /\ last.expected_after = Add32(last.seq, 1)
        /\ last.verdict = "backward" <=>
              ~(ForwardGap(last.diff) \/ last.diff \in {<<0, 0>>, <<0, 1>>})

\* The (uid, frame id) a chunk of the senders can open a slot for.
SlotKeys == {<<d.uid, d.frame_id>> : d \in LiveDatagrams}

HasSlot(k) == k[1] \in DOMAIN chunk_buffers /\ k[2] \in DOMAIN chunk_buffers[k[1]]

\* A chunk that opened a slot and did not complete the frame left the slot
\* with all of total_chunks to come but itself, and a frame of the senders
\* is assembled only from chunks that came after the last discard of its
\* slot.
C33_FreshAfterDiscard ==
    /\ (vlast.fresh /\ vlast.verdict = "stored") =>
          /\ vlast.frame_id \in DOMAIN vlast.slots_after
          /\ vlast.slots_after[vlast.frame_id].remaining =
                vlast.dgram.total_chunks - 1
    /\ (vlast.verdict = "assembled" /\ <<vlast.uid, vlast.frame_id>> \in FrameKeys) =>
          \A i \in 1..Len(VideoFrames[<<vlast.uid, vlast.frame_id>>]) :
              varrived[<<vlast.uid, vlast.frame_id>>][i] >= 1

\* The time of a slot is the time of its first chunk for as long as the
\* slot is there, and a slot the sweep discards is gone.
C33_AgeFromFirstChunk ==
    \A k \in SlotKeys :
        /\ (HasSlot(k) /\ HasSlot(k)') =>
              chunk_buffers'[k[1]][k[2]].born = chunk_buffers[k[1]][k[2]].born
        /\ (k \in vswept' /\ k \notin vswept) => (HasSlot(k) /\ ~HasSlot(k)')

\* C33: every reassembly slot is removed in the end, by completion or by the
\* sweep once it is older than the chunk timeout counted from its first
\* chunk; the chunks of a slot discarded incomplete are in no frame that is
\* fanned out, and a chunk of that (uid, frame id) that comes after the
\* discard opens a fresh slot with total_chunks to come.
C33_SlotsRemoved ==
    /\ \A k \in SlotKeys : HasSlot(k) ~> ~HasSlot(k)
    /\ []C33_FreshAfterDiscard
    /\ [][C33_AgeFromFirstChunk]_vars

\* A chunk of a two-chunk frame came after its slot was discarded, and
\* opened a slot with one chunk to come.
C33_Witness ==
    /\ vlast.kind = "chunk"
    /\ <<vlast.uid, vlast.frame_id>> \in vswept
    /\ vlast.fresh
    /\ vlast.verdict = "stored"
    /\ vlast.dgram.total_chunks = 2
    /\ vlast.slots_after[vlast.frame_id].remaining = 1
    /\ varrived[<<vlast.uid, vlast.frame_id>>] \in {<<1, 0>>, <<0, 1>>}

\* Connection d was told that uid joined, and its peer still listens.
Remaining(d, uid) ==
    /\ pc[d] = "readline"
    /\ d \notin closed \cup broken
    /\ \E m \in recv[d] : m.type = "user_joined" /\ m.uid = uid

ToldLeft(d, uid) == \E m \in recv[d] : m.type = "user_left" /\ m.uid = uid

\* The task of c is in its second disconnect_client: handle_logout has
\* returned from the first and the `finally` of handle_client runs.
SecondDisconnect(c) ==
    /\ running = c
    /\ loc[c].msg.kind = "logout"
    /\ loc[c].dret = "main_del"

\* disconnect_client as handle_logout called it has returned.
LoggedOut(c) == pc[c] = "finally" /\ loc[c].dret = "finally"

\* When the task of a user who had joined has ended, every client that was
\* told of the join and still listens was told that the user left, and the
\* user is in neither table; the disconnect_client of handle_logout leaves
\* the uid in neither table; no user_left is written to a client that has it.
C34_LeftOnce ==
    /\ \A c \in Conns :
          pc[c] = "done" =>
              /\ loc[c].uid \notin DOMAIN clients
              /\ loc[c].uid \notin DOMAIN participants
              /\ \A d \in Conns \ {c} :
                    Remaining(d, loc[c].uid) => ToldLeft(d, loc[c].uid)
    /\ \A c \in Conns :
          LoggedOut(c) => /\ loc[c].uid \notin DOMAIN clients
                          /\ loc[c].uid \notin DOMAIN participants
    /\ \A c \in Conns :
          (/\ running = c /\ pc[c] = "bc_next"
           /\ loc[c].out.type = "user_left" /\ loc[c].it # <<>>
           /\ Head(loc[c].it) \in DOMAIN clients)
          => loc[c].out \notin recv[clients[Head(loc[c].it)]]

\* The second disconnect_client changes no table, closes nothing and sends
\* nothing.
C34_SecondIsNoOp ==
    \A c \in Conns :
        SecondDisconnect(c) =>
            /\ UNCHANGED <<clients, participants, chat_history, closed>>
            /\ \A d \in Conns \ {c} : recv'[d] = recv[d]

\* C34: unregister is idempotent: for each registered user who leaves,
\* exactly one user_left reaches the remaining clients together with the
\* removal, and the second run of disconnect_client that follows a logout
\* changes no state and sends nothing.
C34_UnregisterIdempotent == []C34_LeftOnce /\ [][C34_SecondIsNoOp]_vars

\* Sequence a is what is left of b when some of its elements are taken out.
RECURSIVE IsSubSeq(_, _)
IsSubSeq(a, b) ==
    IF a = <<>> THEN TRUE
    ELSE IF b = <<>> THEN FALSE
    ELSE IF Head(a) = Head(b) THEN IsSubSeq(Tail(a), Tail(b))
    ELSE IsSubSeq(a, Tail(b))

\* C35: the chat and broadcast messages written to a connection come in the
\* order of their records in the chat history, so any two of them come in
\* the same order to every client that gets both, also when their handlers
\* ran concurrently for different users.
C35_GlobalChatOrder ==
    \A c \in Conns : IsSubSeq(rlog[c], chat_history)

\* The handlers of two users' messages run concurrently: both records are in
\* the history, the first is being written to the clients and the handler
\* of the second waits for the lock to broadcast (both had waited for the
\* lock while a third message was broadcast).
C35_Witness ==
    \E d1, d2 \in Conns :
        /\ loc[d1].uid # loc[d2].uid
        /\ pc[d1] = "bc_next" /\ lockHolder = d1
        /\ pc[d2] = "bc_locked" /\ wait[d2] = "lock"
        /\ Len(chat_history) >= 2
        /\ SubSeq(chat_history, Len(chat_history) - 1, Len(chat_history))
              = <<loc[d1].out, loc[d2].out>>
        /\ \E c \in Conns :
              rlog[c] # <<>> /\ rlog[c][Len(rlog[c])] = loc[d1].out

\* The connection of uid c is the sender or the target of unicast record m.
PartyTo(c, m) == loc[c].uid \in {m.uid, m.to}

\* C36: the record of a unicast message is written to its sender and its
\* target only: no other client gets it, neither as a message nor within
\* the reply to its get_history request.
C36_UnicastConfidential ==
    \A c \in Conns :
        \A m \in recv[c] :
            /\ m.type = "unicast" => PartyTo(c, m)
            /\ m.type = "history" =>
                  \A i \in 1..Len(m.messages) :
                      m.messages[i].type = "unicast" => PartyTo(c, m.messages[i])

\* C37: the file of every fid in the file table is on disk at the recorded
\* path with the recorded size, whatever offers and uploads came after it
\* was registered.
C37_FileTableIntegrity ==
    \A fid \in DOMAIN files :
        /\ Exists(files[fid].path)
        /\ Len(OnDisk(files[fid].path)) = files[fid].size

\* How often the worker took a frame of (uid, frame id) k off the queue.
TimesFanned(k) == Cardinality({i \in DOMAIN fanned : fanned[i] = k})

\* C38: a frame (uid, frame id) is assembled and fanned out at most once,
\* however often its chunk datagrams come, the frame of one chunk included.
C38_FannedOutOnce ==
    \A k \in FrameKeys : Len(assembled[k]) <= 1 /\ TimesFanned(k) <= 1

\* C39: every frame VideoClient._send_frame cuts into chunks is assembled
\* from them and queued for fan-out once all its chunks have arrived within
\* the timeout, whatever its length.
C39_ClientFramesReassembled ==
    \A k \in ClientKeys :
        AllArrived(k) => assembled[k] = <<ChunksOf(k)>> /\ InFanOut(k)

\* The last datagram came from a uid with no client record of which a
\* timestamp was still stored: the uid had been evicted.
Reentry ==
    /\ last.verdict \notin {"none", "short"}
    /\ ~last.known
    /\ last.stored_before >= 0

\* C40: the first datagram of a uid after its eviction makes a new record
\* (received 1, dropped 0, expected seq + 1) and its frame is queued for
\* mixing whatever its seq and timestamp: it is not dropped as late against
\* the timestamp stored before the eviction.
C40_ReentryIsFresh ==
    Reentry =>
        /\ last.verdict \in {"queued", "undecodable"}
        /\ last.dropped_by = 0
        /\ last.expected_after = Add32(last.seq, 1)
        /\ last.uid \in DOMAIN aclients =>
              /\ aclients[last.uid].received_packets = 1
              /\ aclients[last.uid].dropped_packets = 0

====
